---- MODULE Spec2Model ----
(***************************************************************************)
(* Model of the result-set cursor of go-querysql (querysql.ResultSets):    *)
(* New, Close, EnsureDoneAfterNext, Next / NextWithSqlResult / NextResult  *)
(* over a multi-result-set row stream (the sql.Rows handle).               *)
(*                                                                         *)
(* The row stream is an external collaborator.  It is modelled as a finite *)
(* sequence of result sets; each has a column list and a number of rows.  *)
(* One fault at most is planted in a stream: the query failing, the close  *)
(* hook failing, Columns() failing on a set, the row stream breaking in a  *)
(* set (rows.Err() non-nil), or the logger returning an error on a set.    *)
(***************************************************************************)
EXTENDS Integers, Sequences, FiniteSets, TLC

\* ------------------------------------------------------------------ bounds
MaxSets == 3
MaxRows == 2
MaxCalls == 4
MaxAccSets == 2
MaxAccRows == 3
MaxWrap == 2
MaxFields == 2
MaxCols == 3
MaxFuncs == 3
MaxBytes == 17
MaxAttempts == 2

\* the length of a uniqueidentifier in bytes
UUIDLen == 16

\* ------------------------------------------------------------- vocabulary
ColumnLists == { <<>>, <<"_", "x">>, <<"x">> }
ScannerKinds == { "slice", "single" }

\* the accumulators of scanner.go: SliceOf, SingleOf and Call(visit)
AccumulatorKinds == { "slice", "single", "iter" }

\* errors are values; "nil" is the nil error
ErrNotDone == "ErrNotDone"
ErrNoMoreSets == "ErrNoMoreSets"
ErrManyRowsExpectedOne == "ErrManyRowsExpectedOne"
ErrZeroRowsExpectedOne == "ErrZeroRowsExpectedOne"

\* strings.ToLower on the column names of the model
ToLower(s) ==
  IF s = "_LOG" THEN "_log"
  ELSE IF s = "X" THEN "x"
  ELSE IF s \in {"Id", "ID"} THEN "id"
  ELSE IF s = "Inner" THEN "inner"
  ELSE s

ResultSetShapes ==
  { [cols |-> c, rows |-> n] : c \in ColumnLists, n \in 0..MaxRows }

\* a result set without columns has no rows
WellFormedSet(s) == (s.cols = <<>>) => (s.rows = 0)

RECURSIVE StreamsOfLen(_)
StreamsOfLen(n) ==
  IF n = 0 THEN { <<>> }
  ELSE { Append(p, s) : p \in StreamsOfLen(n - 1),
                         s \in { x \in ResultSetShapes : WellFormedSet(x) } }

Streams == UNION { StreamsOfLen(n) : n \in 1..MaxSets }

NoFault == [kind |-> "none", at |-> 0, after |-> 0]

\* the faults that can be planted in stream s
Faults(s) ==
  { NoFault, [kind |-> "close", at |-> 0, after |-> 0] }
  \cup { [kind |-> "columns", at |-> i, after |-> 0] : i \in 1..Len(s) }
  \cup UNION { { [kind |-> k, at |-> i, after |-> a] :
                   k \in {"rows", "logger"}, a \in {0, s[i].rows} } :
               i \in { j \in 1..Len(s) : s[j].cols # <<>> } }

VARIABLES
  stream,     \* the result sets the query produces
  fault,      \* the fault planted in this execution
  rs,         \* the ResultSets struct
  h,          \* the *sql.Rows handle: position, last error, closed, operations
  logged,     \* result sets handed to rs.Logger, in order
  scanned,    \* the rows passed to the caller's ScanRow, in order
  hookCalls,  \* invocations of _closeHook
  calls,      \* number of Next calls made
  plain,      \* the caller has only called Next, with slice accumulators
  last,       \* what the last Next or Close did and returned
  dispatched, \* the runs of rs.Dispatcher: the result set and the outcome
  eval        \* a function under evaluation: its name, arguments and result

vars == <<stream, fault, rs, h, logged, scanned, hookCalls, calls, plain, last,
          dispatched, eval>>

\* ------------------------------------------------------ the *sql.Rows handle
\* A "world" w is the record of everything an operation can change:
\*   w.rs, w.h, w.logged, w.scanned, w.hookCalls, w.dispatched
\* and w.scanAt, the result set whose rows the running call loops over

Tick(w) == [w EXCEPT !.h.ops = @ + 1]

FaultAt(kind, set) == fault.kind = kind /\ fault.at = set

\* rows.Columns(): the column names of the current result set
Columns(w) ==
  [w |-> Tick(w),
   cols |-> IF FaultAt("columns", w.h.set) THEN <<>> ELSE stream[w.h.set].cols,
   err |-> IF FaultAt("columns", w.h.set) THEN "ColumnsErr" ELSE "nil"]

\* number of rows the current result set delivers before rows.Next() is false
RowLimit(w) ==
  IF FaultAt("rows", w.h.set) THEN fault.after ELSE stream[w.h.set].rows

\* rows.Next(): advance to the next row of the current result set
RowsNext(w) ==
  IF w.h.closed \/ w.h.lasterr # "nil"
    THEN [w |-> Tick(w), ok |-> FALSE]
  ELSE IF w.h.row < RowLimit(w)
    THEN [w |-> [Tick(w) EXCEPT !.h.row = @ + 1], ok |-> TRUE]
  ELSE [w |-> [Tick(w) EXCEPT !.h.lasterr =
                 IF FaultAt("rows", w.h.set) THEN "RowsErr" ELSE "nil"],
        ok |-> FALSE]

\* rows.Err()
RowsErr(w) == w.h.lasterr

\* rows.NextResultSet(): advance to the next result set of the stream
RowsNextResultSet(w) ==
  IF w.h.closed \/ w.h.lasterr # "nil" \/ w.h.set >= Len(stream)
    THEN [w |-> Tick(w), ok |-> FALSE]
  ELSE [w |-> [Tick(w) EXCEPT !.h.set = @ + 1, !.h.row = 0], ok |-> TRUE]

\* the row the handle is positioned on, as rows.Scan delivers it
CurrentRow(w) == <<w.h.set, w.h.row>>

\* _closeHook(rows): closes the handle, fails when the close fault is planted
closeHook(w) ==
  [w |-> [w EXCEPT !.h.closed = TRUE, !.hookCalls = @ + 1],
   err |-> IF fault.kind = "close" THEN "CloseErr" ELSE "nil"]

\* --------------------------------------------------------------- ResultSets
\* faulty variant: New wraps the query error, as "rows.New: %w" would
NewWrapsError(rowsOpen, err, logger) ==
  [Rows |-> rowsOpen, Err |-> IF err = "nil" THEN err ELSE "rows.New: " \o err,
   DoneAfterNext |-> FALSE, Logger |-> logger, LogKeyLowercase |-> "",
   started |-> FALSE, Dispatcher |-> FALSE]

\* New: Rows is nil exactly when QueryContext failed; the error is kept as is;
\* the fields New does not set have Go's zero value
New(rowsOpen, err, logger) ==
  [Rows |-> rowsOpen, Err |-> err, DoneAfterNext |-> FALSE,
   Logger |-> logger, LogKeyLowercase |-> "", started |-> FALSE,
   Dispatcher |-> FALSE]

EnsureDoneAfterNext(w) == [w EXCEPT !.rs.DoneAfterNext = TRUE]

\* faulty variant: Close leaves rs.Rows set
CloseKeepsRows(w) ==
  IF w.rs.Rows THEN closeHook(w) ELSE [w |-> w, err |-> "nil"]

Close(w) ==
  LET rows == w.rs.Rows
      w1 == [w EXCEPT !.rs.Rows = FALSE]
  IN IF rows THEN closeHook(w1) ELSE [w |-> w1, err |-> "nil"]

Done(w) == ~w.rs.Rows

\* faulty variant: the marker is looked for in the last column
hasLogColumnLast(r, cols) ==
  Len(cols) > 0 /\ ( cols[Len(cols)] = "_"
                     \/ (r.LogKeyLowercase # ""
                         /\ ToLower(cols[Len(cols)]) = r.LogKeyLowercase) )

hasLogColumn(r, cols) ==
  Len(cols) > 0 /\ ( cols[1] = "_"
                     \/ (r.LogKeyLowercase # "" /\ ToLower(cols[1]) = r.LogKeyLowercase) )

\* a world paired with the handle's rows.Err()
WithRowsErr(w) == [w |-> w, err |-> RowsErr(w)]

\* for rs.Rows.Next() { }
RECURSIVE DrainRows(_), DrainStep(_)
DrainRows(w) == DrainStep(RowsNext(w))
DrainStep(n) == IF n.ok THEN DrainRows(n.w) ELSE n.w

\* rows.Next() called k times at most, stopping at the first false
RECURSIVE TakeRows(_, _), TakeStep(_, _)
TakeRows(w, k) == IF k = 0 THEN w ELSE TakeStep(RowsNext(w), k)
TakeStep(n, k) == IF n.ok THEN TakeRows(n.w, k - 1) ELSE n.w

\* rs.Logger(rows): a log sink reads the rows of the set and returns rows.Err(),
\* or reads fault.after rows and fails when the logger fault is planted here
Logger(w) ==
  IF FaultAt("logger", w.h.set)
    THEN [w |-> TakeRows([w EXCEPT !.logged = Append(@, w.h.set)], fault.after),
          err |-> "LoggerErr"]
    ELSE WithRowsErr(DrainRows([w EXCEPT !.logged = Append(@, w.h.set)]))

\* processLogSelect, after rs.Logger returned l
AfterLogger(l) == IF l.err # "nil" THEN l ELSE WithRowsErr(l.w)

\* faulty variant: without a logger the log-marked set is left unread
processLogSelectSkipsDrain(w) ==
  IF ~w.rs.Logger THEN [w |-> w, err |-> "nil"] ELSE AfterLogger(Logger(w))

processLogSelect(w) ==
  IF ~w.rs.Logger THEN WithRowsErr(DrainRows(w)) ELSE AfterLogger(Logger(w))

\* faulty variant: the exhausted stream is not closed
AfterNextResultSetNoClose(n) == [w |-> n.w, err |-> "nil"]

\* nextResultSet, after rs.Rows.NextResultSet() returned n
AfterNextResultSet(n) == IF n.ok THEN [w |-> n.w, err |-> "nil"] ELSE Close(n.w)

nextResultSet(w) == AfterNextResultSet(RowsNextResultSet(w))

\* the cursor is built from a context that WithDispatcher put a dispatcher in
WithDispatcher(r) == [r EXCEPT !.Dispatcher = TRUE]

\* the first column carries the dispatch marker
hasDispatchColumn(cols) == Len(cols) > 0 /\ cols[1] = "_function"

\* one run of the dispatcher on the current result set, entered in w.dispatched
Ran(w, called, err) ==
  [w |-> [w EXCEPT !.dispatched =
            Append(@, [set |-> w.h.set, called |-> called, err |-> err])],
   err |-> err]

\* rs.Dispatcher(rs.Rows) as the cursor sees it: the rows are read; with no
\* row there is nothing to do; the row read last fails validation where the
\* dispatch fault is planted; otherwise the named function is called and
\* rows.Err() is returned
AfterDispatchRows(w) ==
  IF w.h.row = 0 THEN Ran(w, FALSE, "nil")
  ELSE IF FaultAt("dispatch", w.h.set) THEN Ran(w, FALSE, "DispatchErr")
  ELSE Ran(w, TRUE, RowsErr(w))

Dispatcher(w) == AfterDispatchRows(DrainRows(w))

AllLogs(w, hadColumns, err) == [w |-> w, hadColumns |-> hadColumns, err |-> err]

RECURSIVE processAllLogSelects(_), ClassifyColumns(_), AfterLogSelect(_),
          AfterLogAdvance(_)
processAllLogSelects(w) ==
  IF Done(w) THEN AllLogs(w, TRUE, "nil") ELSE ClassifyColumns(Columns(w))

\* the loop body of processAllLogSelects, after rs.Rows.Columns() returned c
ClassifyColumns(c) ==
  IF c.err # "nil" THEN AllLogs(c.w, FALSE, c.err)
  ELSE IF Len(c.cols) = 0 THEN AllLogs(c.w, FALSE, "nil")
  ELSE IF hasLogColumn(c.w.rs, c.cols) THEN AfterLogSelect(processLogSelect(c.w))
  ELSE IF c.w.rs.Dispatcher /\ hasDispatchColumn(c.cols)
    THEN AfterLogSelect(Dispatcher(c.w))
  ELSE AllLogs(c.w, TRUE, "nil")

\* ... after rs.processLogSelect() returned p
AfterLogSelect(p) ==
  IF p.err # "nil" THEN AllLogs(p.w, FALSE, p.err)
  ELSE AfterLogAdvance(nextResultSet(p.w))

\* ... after rs.nextResultSet() returned n
AfterLogAdvance(n) ==
  IF n.err # "nil" THEN AllLogs(n.w, FALSE, n.err) ELSE processAllLogSelects(n.w)

\* ----------------------------------------------------------------- scanners
\* typ(): a fresh accumulator (SliceOf / SingleOf / Call(visit)); visits is
\* what the caller's visit function has been handed so far; kind "nil" is the
\* nil Target, which is handed no row
NewScanner(kind) ==
  [kind |-> kind, hasRead |-> FALSE, out |-> <<>>, count |-> 0, visits |-> <<>>]

\* the caller's visit function, at its k-th invocation on a row of a set: it
\* fails where the visit fault is planted
visit(row, k) ==
  IF FaultAt("visit", row[1]) /\ fault.after = k THEN "VisitErr" ELSE "nil"

\* faulty variant: the single accumulator keeps the last row and never objects
ScanRowKeepsLast(sc, row) ==
  [sc |-> [sc EXCEPT !.hasRead = TRUE,
                     !.out = IF sc.kind = "single" THEN <<row>> ELSE Append(@, row),
                     !.count = @ + 1, !.visits = Append(@, row)],
   err |-> IF sc.kind = "iter" THEN visit(row, sc.count + 1) ELSE "nil"]

\* faulty variant: the slice holds references to the one row buffer
ScanRowSharesBuffer(sc, row) ==
  IF sc.kind = "single"
    THEN IF sc.hasRead
           THEN [sc |-> sc, err |-> ErrManyRowsExpectedOne]
           ELSE [sc |-> [sc EXCEPT !.hasRead = TRUE, !.out = <<row>>], err |-> "nil"]
  ELSE IF sc.kind = "iter"
    THEN [sc |-> [sc EXCEPT !.count = @ + 1, !.visits = Append(@, row)],
          err |-> visit(row, sc.count + 1)]
  ELSE [sc |-> [sc EXCEPT !.out = [k \in 1..(Len(@) + 1) |-> row]], err |-> "nil"]

\* faulty variant: the error of the visit function is dropped
ScanRowDropsVisitErr(sc, row) ==
  IF sc.kind = "single"
    THEN IF sc.hasRead
           THEN [sc |-> sc, err |-> ErrManyRowsExpectedOne]
           ELSE [sc |-> [sc EXCEPT !.hasRead = TRUE, !.out = <<row>>], err |-> "nil"]
  ELSE IF sc.kind = "iter"
    THEN [sc |-> [sc EXCEPT !.count = @ + 1, !.visits = Append(@, row)],
          err |-> "nil"]
  ELSE [sc |-> [sc EXCEPT !.out = Append(@, row)], err |-> "nil"]

\* scanner.ScanRow(rows) for the row the handle is positioned on
ScanRow(sc, row) ==
  IF sc.kind = "single"
    THEN IF sc.hasRead
           THEN [sc |-> sc, err |-> ErrManyRowsExpectedOne]
           ELSE [sc |-> [sc EXCEPT !.hasRead = TRUE, !.out = <<row>>], err |-> "nil"]
  ELSE IF sc.kind = "iter"
    THEN [sc |-> [sc EXCEPT !.count = @ + 1, !.visits = Append(@, row)],
          err |-> visit(row, sc.count + 1)]
  ELSE [sc |-> [sc EXCEPT !.out = Append(@, row)], err |-> "nil"]

\* result.Result()
Result(sc) ==
  IF sc.kind = "single" /\ ~sc.hasRead
    THEN [value |-> <<>>, err |-> ErrZeroRowsExpectedOne]
  ELSE IF sc.kind = "iter" THEN [value |-> sc.count, err |-> "nil"]
  ELSE [value |-> sc.out, err |-> "nil"]

\* for rs.Rows.Next() { scanner.ScanRow(rs.Rows) }
RECURSIVE ScanLoop(_, _), ScanStep(_, _), ScanStored(_, _)
ScanLoop(w, sc) == ScanStep(RowsNext(w), sc)

\* ... after rs.Rows.Next() returned n
ScanStep(n, sc) ==
  IF ~n.ok THEN [w |-> n.w, sc |-> sc, err |-> "nil"]
  ELSE IF sc.kind = "nil" THEN ScanLoop(n.w, sc)
  ELSE ScanStored([n.w EXCEPT !.scanned = Append(@, CurrentRow(n.w))],
                  ScanRow(sc, CurrentRow(n.w)))

\* ... after scanner.ScanRow returned r
ScanStored(w, r) ==
  IF r.err # "nil" THEN [w |-> w, sc |-> r.sc, err |-> r.err]
  ELSE ScanLoop(w, r.sc)

\* ------------------------------------------------------- NextWithSqlResult
Ret(w, sc, res, err) == [w |-> w, sc |-> sc, res |-> res, err |-> err]

\* defer func() { _ = rs.Close() }()
DeferClose(w) == Close(w).w

\* faulty variant: DoneAfterNext is not looked at
AfterTrailingLogsNoCheck(p, sc) ==
  IF p.err # "nil" THEN Ret(p.w, sc, "nil", p.err)
  ELSE Ret(p.w, sc, "sqlResult", "nil")

\* after the trailing rs.processAllLogSelects() returned p
AfterTrailingLogs(p, sc) ==
  IF p.err # "nil" THEN Ret(p.w, sc, "nil", p.err)
  ELSE IF p.w.rs.DoneAfterNext /\ ~Done(p.w)
    THEN Ret(Close(p.w).w, sc, "nil", ErrNotDone)
  ELSE Ret(p.w, sc, "sqlResult", "nil")

\* faulty variant: the error of nextResultSet is dropped
AfterAdvanceDropsErr(n, sc) ==
  AfterTrailingLogs(processAllLogSelects(n.w), sc)

\* after rs.nextResultSet() returned n
AfterAdvance(n, sc) ==
  IF n.err # "nil" THEN Ret(DeferClose(n.w), sc, "nil", n.err)
  ELSE AfterTrailingLogs(processAllLogSelects(n.w), sc)

\* after the row loop ended with s
AfterScan(s) ==
  IF s.err # "nil" THEN Ret(DeferClose(s.w), s.sc, "nil", s.err)
  ELSE IF RowsErr(s.w) # "nil"
    THEN Ret(DeferClose([s.w EXCEPT !.rs.Err = RowsErr(s.w)]), s.sc, "sqlResult", "nil")
  ELSE AfterAdvance(nextResultSet(s.w), s.sc)

\* the row loop of NextWithSqlResult and what follows it
ScanAndAdvance(w, sc) ==
  AfterScan(ScanLoop([w EXCEPT !.scanAt = w.h.set], sc))

\* rs.started = true, and the check that follows it
EnterFirst(w, sc) ==
  IF Done(w) THEN Ret(w, sc, "nil", ErrNoMoreSets) ELSE ScanAndAdvance(w, sc)

\* the first call, after rs.processAllLogSelects() returned a
FirstEntry(a, sc) ==
  IF a.err # "nil" THEN Ret(DeferClose(a.w), sc, "nil", a.err)
  ELSE IF ~a.hadColumns THEN Ret(DeferClose(a.w), sc, "sqlResult", ErrNoMoreSets)
  ELSE EnterFirst([a.w EXCEPT !.rs.started = TRUE], sc)

\* faulty variant: Done is tested before rs.Err
NextWithSqlResultDoneFirst(w, sc) ==
  IF Done(w) THEN Ret(w, sc, "nil", ErrNoMoreSets)
  ELSE IF w.rs.Err # "nil" THEN Ret(w, sc, "nil", w.rs.Err)
  ELSE IF ~w.rs.started THEN FirstEntry(processAllLogSelects(w), sc)
  ELSE ScanAndAdvance(w, sc)

NextWithSqlResult(w, sc) ==
  IF w.rs.Err # "nil" THEN Ret(w, sc, "nil", w.rs.Err)
  ELSE IF Done(w) THEN Ret(w, sc, "nil", ErrNoMoreSets)
  ELSE IF ~w.rs.started THEN FirstEntry(processAllLogSelects(w), sc)
  ELSE ScanAndAdvance(w, sc)

\* Next(rs, scanner)
Next(w, sc) == NextWithSqlResult(w, sc)

\* faulty variant: the cursor is closed when Result() returns an error
NextResultOfClosesOnError(n) ==
  IF n.err # "nil"
    THEN [w |-> n.w, value |-> <<>>, err |-> n.err, nextErr |-> n.err,
          res |-> n.res, visits |-> n.sc.visits]
  ELSE [w |-> IF Result(n.sc).err # "nil" THEN Close(n.w).w ELSE n.w,
        value |-> Result(n.sc).value, err |-> Result(n.sc).err,
        nextErr |-> n.err, res |-> n.res, visits |-> n.sc.visits]

\* NextResult, after Next returned n
NextResultOf(n) ==
  IF n.err # "nil"
    THEN [w |-> n.w, value |-> <<>>, err |-> n.err, nextErr |-> n.err,
          res |-> n.res, visits |-> n.sc.visits]
  ELSE [w |-> n.w, value |-> Result(n.sc).value, err |-> Result(n.sc).err,
        nextErr |-> n.err, res |-> n.res, visits |-> n.sc.visits]

\* NextResult(rs, typ): the value and error handed to the caller
NextResult(w, kind) == NextResultOf(Next(w, NewScanner(kind)))

\* ------------------------------------------------------------------ actions
World == [rs |-> rs, h |-> h, logged |-> logged, scanned |-> scanned,
          hookCalls |-> hookCalls, scanAt |-> 0, dispatched |-> dispatched]

SetWorld(w) ==
  /\ rs' = w.rs
  /\ h' = w.h
  /\ logged' = w.logged
  /\ scanned' = w.scanned
  /\ hookCalls' = w.hookCalls
  /\ dispatched' = w.dispatched

\* what an operation reports: the operation, the accumulator it used, the
\* error NextResult and Next returned, the value, the sql.Result, the set the
\* call scanned (0: none), DoneAfterNext at the call, handle operations made,
\* the rows the visit function was handed
NoOp == [op |-> "New", kind |-> "", err |-> "nil", nextErr |-> "nil",
         value |-> <<>>, res |-> "nil", scanAt |-> 0, doneAfterNext |-> FALSE,
         ops |-> 0, visits |-> <<>>]

\* no function is under evaluation
NoEval == [fn |-> "", arg |-> <<>>, out |-> <<>>, returned |-> FALSE]

Init ==
  /\ stream \in Streams
  /\ \E logger \in BOOLEAN :
       \/ /\ fault \in { f \in Faults(stream) : f.kind = "logger" => logger }
          /\ rs = New(TRUE, "nil", logger)
       \/ /\ fault = [kind |-> "query", at |-> 0, after |-> 0]
          /\ Len(stream) = 1 /\ stream[1].cols = <<>>
          /\ rs = New(FALSE, "QueryErr", logger)
  /\ h = [set |-> 1, row |-> 0, lasterr |-> "nil", closed |-> FALSE, ops |-> 0]
  /\ logged = <<>>
  /\ scanned = <<>>
  /\ hookCalls = 0
  /\ calls = 0
  /\ plain = TRUE
  /\ last = NoOp
  /\ dispatched = <<>>
  /\ eval = NoEval

\* result, err := NextResult(rs, SliceOf[T]) / NextResult(rs, SingleOf[T])
NextResultCall(kind) ==
  /\ calls < MaxCalls
  /\ \E r \in { NextResult(World, kind) } :
       /\ SetWorld(r.w)
       /\ last' = [op |-> "Next", kind |-> kind, err |-> r.err,
                   nextErr |-> r.nextErr, value |-> r.value, res |-> r.res,
                   scanAt |-> r.w.scanAt,
                   doneAfterNext |-> rs.DoneAfterNext,
                   ops |-> r.w.h.ops - h.ops, visits |-> r.visits]
  /\ calls' = calls + 1
  /\ plain' = (plain /\ kind = "slice")
  /\ UNCHANGED <<stream, fault, eval>>

\* err := rs.Close()
CloseCall ==
  /\ \E c \in { Close(World) } :
       /\ SetWorld(c.w)
       /\ last' = [NoOp EXCEPT !.op = "Close", !.err = c.err]
  /\ plain' = FALSE
  /\ UNCHANGED <<stream, fault, calls, eval>>

\* New(...).EnsureDoneAfterNext(): the flag is set before the first Next, as
\* Single, Slice and Iter do
EnsureDoneAfterNextCall ==
  /\ calls = 0
  /\ SetWorld(EnsureDoneAfterNext(World))
  /\ plain' = FALSE
  /\ UNCHANGED <<stream, fault, calls, last, eval>>

Step ==
  \/ \E kind \in ScannerKinds : NextResultCall(kind)
  \/ CloseCall
  \/ EnsureDoneAfterNextCall

Spec == Init /\ [][Step]_vars

\* ------------------------------------------------------------- ExecContext
\* the outcome of ExecContext after n calls of NextWithSqlResult
Executed(w, n, res, err) == [w |-> w, n |-> n, res |-> res, err |-> err]

\* for { res, err = NextWithSqlResult(rs, nil) ... }
RECURSIVE ExecLoop(_, _), ExecStep(_, _)
ExecLoop(w, n) == ExecStep(NextWithSqlResult(w, NewScanner("nil")), n + 1)

\* ... after NextWithSqlResult returned r, the n-th call
ExecStep(r, n) ==
  IF r.err = "nil" THEN ExecLoop(r.w, n)
  ELSE IF r.err = ErrNoMoreSets THEN Executed(r.w, n, r.res, "nil")
  ELSE Executed(r.w, n, "nil", r.err)

\* res, err := ExecContext(ctx, querier, qry): New, then the loop
ExecContextCall ==
  /\ calls = 0 /\ last.op = "New" /\ ~rs.DoneAfterNext
  /\ \E r \in { ExecLoop(World, 0) } :
       /\ SetWorld(r.w)
       /\ last' = [NoOp EXCEPT !.op = "ExecContext", !.err = r.err, !.res = r.res,
                               !.ops = r.w.h.ops - h.ops]
       /\ calls' = r.n
  /\ plain' = FALSE
  /\ UNCHANGED <<stream, fault, eval>>

ExecSpec == Init /\ [][ExecContextCall]_vars

\* the sequences over S of length n at most
RECURSIVE SeqsUpTo(_, _)
SeqsUpTo(S, n) ==
  IF n = 0 THEN { <<>> }
  ELSE SeqsUpTo(S, n - 1)
       \cup { Append(q, x) : q \in { r \in SeqsUpTo(S, n - 1) : Len(r) = n - 1 },
                             x \in S }

\* ------------------------------------------------- Query, Query2 .. Query4
\* the outcome of a Query function after n calls of Next: the values read,
\* one for each target
Queried(w, n, values, err) == [w |-> w, n |-> n, values |-> values, err |-> err]

\* the error a Query function looks at: Query calls Next on its targets,
\* Query2 to Query4 call NextResult and so see the error of Result() as well
ErrorSeen(r, viaResult) == IF viaResult THEN r.err ELSE r.nextErr

RECURSIVE QueryLoop(_, _, _, _, _), QueryStep(_, _, _, _, _)

\* faulty variant: the cursor is closed on success only
QueryStepLeavesOpen(r, targets, viaResult, n, values) ==
  IF ErrorSeen(r, viaResult) # "nil"
    THEN Queried(r.w, n, <<>>, ErrorSeen(r, viaResult))
    ELSE QueryLoop(r.w, targets, viaResult, n, Append(values, r.value))

\* the targets in turn, then success = true and rs.Close(); the deferred
\* function closes the cursor on every other return
QueryLoop(w, targets, viaResult, n, values) ==
  IF targets = <<>>
    THEN Queried(Close(w).w, n,
                 IF viaResult /\ Close(w).err # "nil" THEN <<>> ELSE values,
                 Close(w).err)
    ELSE QueryStep(NextResult(w, Head(targets)), Tail(targets), viaResult,
                   n + 1, values)

\* ... after the n-th Next returned r
QueryStep(r, targets, viaResult, n, values) ==
  IF ErrorSeen(r, viaResult) # "nil"
    THEN Queried(Close(r.w).w, n, <<>>, ErrorSeen(r, viaResult))
    ELSE QueryLoop(r.w, targets, viaResult, n, Append(values, r.value))

\* Query(targets, ...) for any number of targets, and Query2, Query3, Query4
QueryCall(targets, viaResult) ==
  /\ calls = 0 /\ last.op = "New" /\ ~rs.DoneAfterNext
  /\ viaResult => Len(targets) >= 2
  /\ \E r \in { QueryLoop(World, targets, viaResult, 0, <<>>) } :
       /\ SetWorld(r.w)
       /\ last' = [op |-> "Query", kind |-> "", err |-> r.err, nextErr |-> r.err,
                   value |-> r.values, res |-> "nil", scanAt |-> r.w.scanAt,
                   doneAfterNext |-> FALSE, ops |-> r.w.h.ops - h.ops,
                   visits |-> <<>>, targets |-> targets, viaResult |-> viaResult]
       /\ calls' = r.n
  /\ plain' = FALSE
  /\ UNCHANGED <<stream, fault, eval>>

QueryStep1 ==
  \E targets \in SeqsUpTo(ScannerKinds, MaxCalls), viaResult \in BOOLEAN :
    QueryCall(targets, viaResult)

QuerySpec == Init /\ [][QueryStep1]_vars

\* -------------------------------------------- the accumulators on a cursor
\* streams of result sets with one column and up to MaxAccRows rows
AccSets == { [cols |-> <<"x">>, rows |-> n] : n \in 0..MaxAccRows }

RECURSIVE AccStreamsOfLen(_)
AccStreamsOfLen(n) ==
  IF n = 0 THEN { <<>> }
  ELSE { Append(p, s) : p \in AccStreamsOfLen(n - 1), s \in AccSets }

AccStreams == UNION { AccStreamsOfLen(n) : n \in 1..MaxAccSets }

\* the visit function may fail at any one of its invocations
VisitFaults(s) ==
  UNION { { [kind |-> "visit", at |-> i, after |-> k] : k \in 1..s[i].rows } :
          i \in 1..Len(s) }

AccInit ==
  /\ stream \in AccStreams
  /\ fault \in {NoFault} \cup VisitFaults(stream)
  /\ rs = New(TRUE, "nil", FALSE)
  /\ h = [set |-> 1, row |-> 0, lasterr |-> "nil", closed |-> FALSE, ops |-> 0]
  /\ logged = <<>>
  /\ scanned = <<>>
  /\ hookCalls = 0
  /\ calls = 0
  /\ plain = TRUE
  /\ last = NoOp
  /\ dispatched = <<>>
  /\ eval = NoEval

AccStep ==
  \/ \E kind \in AccumulatorKinds : NextResultCall(kind)
  \/ EnsureDoneAfterNextCall

AccSpec == AccInit /\ [][AccStep]_vars

\* -------------------------------------------- the cursor with a dispatcher
\* streams of data sets, sets with `_log` as their first column and
\* dispatch-marked sets; the row a dispatch-marked set ends with may fail the
\* dispatcher's validation
RoutedSets ==
  { [cols |-> c, rows |-> n] :
      c \in { <<"_function", "x">>, <<"x">>, <<"_log", "x">> }, n \in 0..MaxRows }

RECURSIVE RoutedStreamsOfLen(_)
RoutedStreamsOfLen(n) ==
  IF n = 0 THEN { <<>> }
  ELSE { Append(p, s) : p \in RoutedStreamsOfLen(n - 1), s \in RoutedSets }

DispatchFaultsOf(s) ==
  { [kind |-> "dispatch", at |-> i, after |-> 0] :
      i \in { j \in 1..Len(s) : hasDispatchColumn(s[j].cols) /\ s[j].rows > 0 } }

RoutedInit ==
  /\ stream \in UNION { RoutedStreamsOfLen(n) : n \in 1..MaxSets }
  /\ \E logger \in BOOLEAN :
       \/ /\ fault = NoFault
          /\ rs = New(TRUE, "nil", logger)
       \/ /\ fault \in {NoFault} \cup DispatchFaultsOf(stream)
          /\ rs = WithDispatcher(New(TRUE, "nil", logger))
  /\ h = [set |-> 1, row |-> 0, lasterr |-> "nil", closed |-> FALSE, ops |-> 0]
  /\ logged = <<>>
  /\ scanned = <<>>
  /\ hookCalls = 0
  /\ calls = 0
  /\ plain = TRUE
  /\ last = NoOp
  /\ dispatched = <<>>
  /\ eval = NoEval

RoutedStep == \E kind \in ScannerKinds : NextResultCall(kind)

RoutedSpec == RoutedInit /\ [][RoutedStep]_vars

\* the cursor variables of a specification that evaluates a function only
CursorIdle ==
  /\ stream = <<>>
  /\ fault = NoFault
  /\ rs = New(FALSE, "nil", FALSE)
  /\ h = [set |-> 1, row |-> 0, lasterr |-> "nil", closed |-> FALSE, ops |-> 0]
  /\ logged = <<>>
  /\ scanned = <<>>
  /\ hookCalls = 0
  /\ calls = 0
  /\ plain = TRUE
  /\ last = NoOp
  /\ dispatched = <<>>

cursorVars ==
  <<stream, fault, rs, h, logged, scanned, hookCalls, calls, plain, last,
    dispatched>>

\* a function call before it has returned
Pending(fn, arg) == [fn |-> fn, arg |-> arg, out |-> "pending", returned |-> FALSE]

\* the call under evaluation returns v
Return(v) == [eval EXCEPT !.out = v, !.returned = TRUE]

\* ----------------------------------------------- QuerySqlError, errors.Is
\* Error values.  The nil error; errors made by errors.New, which are equal
\* when they are the same pointer (id); QuerySqlError struct values, equal
\* field by field; and pointers to QuerySqlError values.
NilErr == [kind |-> "nil"]

ErrNoRows ==
  [kind |-> "errorString", id |-> "sql.ErrNoRows",
   text |-> "sql: no rows in result set"]

\* an error of the driver
DriverErr ==
  [kind |-> "errorString", id |-> "mssql", text |-> "mssql: INSERT fails"]

\* another error value with the text of sql.ErrNoRows
NoRowsTwin ==
  [kind |-> "errorString", id |-> "twin", text |-> "sql: no rows in result set"]

LeafErrors == { ErrNoRows, DriverErr, NoRowsTwin }

NewManyRowsExpectedOne ==
  [kind |-> "QuerySqlError",
   fmtString |-> "query: more than 1 row (use sliceScanner?)", err |-> NilErr]

NewZeroRowsExpectedOne(underlying) ==
  [kind |-> "QuerySqlError", fmtString |-> "query: 0 rows, expected 1: %w",
   err |-> underlying]

\* &e for a QuerySqlError e
AddressOf(e) == [e EXCEPT !.kind = "*QuerySqlError"]

IsQuerySqlError(e) == e.kind \in { "QuerySqlError", "*QuerySqlError" }

\* fmt.Sprintf(e.fmtString, e.err): outside fmt.Errorf %w is a bad verb, and
\* an operand without a verb is reported as EXTRA
RECURSIVE ErrorText(_), Operand(_)
ErrorText(e) ==
  IF e.kind = "errorString" THEN e.text
  ELSE IF e.fmtString = "query: 0 rows, expected 1: %w"
    THEN "query: 0 rows, expected 1: %!w(" \o Operand(e.err) \o ")"
  ELSE e.fmtString \o "%!(EXTRA " \o Operand(e.err) \o ")"

\* how fmt reports the operand of a bad verb: type=value
Operand(e) ==
  IF e.kind = "nil" THEN "<nil>"
  ELSE IF e.kind = "errorString" THEN "*errors.errorString=&{" \o e.text \o "}"
  ELSE e.kind \o "={" \o e.fmtString \o " " \o Operand(e.err) \o "}"

GoBool(b) == IF b THEN "true" ELSE "false"

\* QuerySqlError.Is: "true", "false", or "panic" for the method call on the
\* nil interface value e.err
QuerySqlErrorIs(e, other) ==
  IF other.kind # "*QuerySqlError"
    THEN IF e.err = NilErr THEN "panic"
         ELSE GoBool(ErrorText(e.err) = ErrorText(other))
  ELSE GoBool(e.fmtString = other.fmtString /\ e.err = other.err)

\* QuerySqlError.Unwrap
Unwrap(e) == e.err

\* errors.Is of the standard library, for a comparable target: the loop
RECURSIVE is(_, _)
is(err, target) ==
  IF err = target THEN "true"
  ELSE IF ~IsQuerySqlError(err) THEN "false"
  ELSE IF QuerySqlErrorIs(err, target) # "false" THEN QuerySqlErrorIs(err, target)
  ELSE IF Unwrap(err) = NilErr THEN "false"
  ELSE is(Unwrap(err), target)

ErrorsIs(err, target) ==
  IF err = NilErr \/ target = NilErr THEN GoBool(err = target)
  ELSE is(err, target)

\* the errorWrapper of singleScanner.Result for a scanner that read no row
ZeroRowsWrapper(e) ==
  NewZeroRowsExpectedOne(IF e = NilErr THEN ErrNoRows ELSE e)

\* what NextResult returns for SingleOf on an empty result set: the wrapper
\* applied to the nil error of Next
EmptySingleError == ZeroRowsWrapper(NilErr)

\* the error values of wrapping depth d at most
RECURSIVE ErrorsOfDepth(_)
ErrorsOfDepth(d) ==
  IF d = 0 THEN LeafErrors
  ELSE LeafErrors
       \cup { NewManyRowsExpectedOne, AddressOf(NewManyRowsExpectedOne) }
       \cup UNION { { NewZeroRowsExpectedOne(u), AddressOf(NewZeroRowsExpectedOne(u)) } :
                     u \in ErrorsOfDepth(d - 1) \cup {NilErr} }

ErrorValues == ErrorsOfDepth(MaxWrap) \cup {NilErr}

ErrInit ==
  /\ CursorIdle
  /\ eval \in { Pending("errors.Is", <<e, target>>) : e, target \in ErrorValues }

\* errors.Is(err, target)
ErrorsIsCall ==
  /\ eval.fn = "errors.Is" /\ ~eval.returned
  /\ eval' = Return(ErrorsIs(eval.arg[1], eval.arg[2]))
  /\ UNCHANGED cursorVars

ErrSpec == ErrInit /\ [][ErrorsIsCall]_vars

\* ----------------------------------------------------- getPointersToFields
\* A struct type is the sequence of its fields.  A field has a Go name and is
\* a scalar or a struct; recurse says that a struct field is anonymous or
\* tagged refl:"recurse".
ScalarFieldNames == { "Id", "ID", "name" }

ColumnNames == { "id", "ID", "name", "inner" }

ScalarField(n) ==
  [Name |-> n, Kind |-> "scalar", recurse |-> FALSE, Fields |-> <<>>]

StructField(recurse, fields) ==
  [Name |-> "Inner", Kind |-> "struct", recurse |-> recurse, Fields |-> fields]

\* Go rejects a struct type that declares a field name twice
DistinctNames(fields) ==
  \A a, b \in 1..Len(fields) : a # b => fields[a].Name # fields[b].Name

InnerStructs ==
  { fs \in SeqsUpTo({ ScalarField(n) : n \in ScalarFieldNames }, MaxFields) :
      fs # <<>> /\ DistinctNames(fs) }

StructTypes ==
  { fs \in SeqsUpTo({ ScalarField(n) : n \in ScalarFieldNames }
                     \cup { StructField(r, in) : r \in BOOLEAN, in \in InnerStructs },
                     MaxFields) : DistinctNames(fs) }

\* an identifier is exported when it starts with an upper-case letter
Exported(name) == name \in { "Id", "ID", "Inner" }

\* the flattened fields of a struct
RECURSIVE deepFieldsOfStructValue(_)
deepFieldsOfStructValue(fields) ==
  IF fields = <<>> THEN <<>>
  ELSE (IF Head(fields).Kind = "struct" /\ Head(fields).recurse
          THEN deepFieldsOfStructValue(Head(fields).Fields)
          ELSE <<Head(fields)>>)
       \o deepFieldsOfStructValue(Tail(fields))

\* DeepFieldNames
deepFieldNamesOfStructType(fields) ==
  [j \in 1..Len(deepFieldsOfStructValue(fields)) |->
     deepFieldsOfStructValue(fields)[j].Name]

\* DeepFieldPointers: the address of flattened field j is j; the pointer of a
\* field that is not exported stays nil (0)
DeepFieldPointers(fields) ==
  [j \in 1..Len(deepFieldsOfStructValue(fields)) |->
     IF Exported(deepFieldsOfStructValue(fields)[j].Name) THEN j ELSE 0]

canonicalName(name) == ToLower(name)

Canonical(names) == [i \in 1..Len(names) |-> canonicalName(names[i])]

\* name2index[col]: the last field of that name, 0 when there is none
name2index(names, col) ==
  IF \E j \in 1..Len(names) : names[j] = col
    THEN CHOOSE j \in 1..Len(names) :
           /\ names[j] = col
           /\ \A k \in (j + 1)..Len(names) : names[k] # col
    ELSE 0

\* the columns that name2index knows, in query column order
MappedColumns(names, columns) ==
  SelectSeq(columns, LAMBDA col : name2index(names, col) # 0)

\* ptrs, reordered to match the query column order
ReorderPointers(names, columns, origPtrs) ==
  [i \in 1..Len(MappedColumns(names, columns)) |->
     origPtrs[name2index(names, MappedColumns(names, columns)[i])]]

\* the two demands of getPointersToFields, on canonical names
CheckMapping(names, columns, ptrs) ==
  IF Len(ptrs) # Len(names)
    THEN [ptrs |-> <<>>, err |-> "failed to map all struct fields to query columns"]
  ELSE IF Len(columns) > Len(ptrs)
    THEN [ptrs |-> <<>>, err |-> "failed to map all query columns to struct fields"]
  ELSE [ptrs |-> ptrs, err |-> "nil"]

\* getPointersToFields(rows, pointerToStruct), rows.Columns() having returned
\* (columns, columnsErr)
getPointersToFields(columns, columnsErr, fields) ==
  IF columnsErr # "nil" THEN [ptrs |-> <<>>, err |-> columnsErr]
  ELSE CheckMapping(Canonical(deepFieldNamesOfStructType(fields)),
                    Canonical(columns),
                    ReorderPointers(Canonical(deepFieldNamesOfStructType(fields)),
                                    Canonical(columns), DeepFieldPointers(fields)))

\* rows.Scan(ptrs...): value i is stored through pointer i; a nil destination
\* is an error; a field no pointer refers to keeps its zero value (0)
Scan(ptrs, values, nfields) ==
  [err |-> IF \E i \in 1..Len(ptrs) : ptrs[i] = 0 THEN "ScanErr" ELSE "nil",
   fields |-> [j \in 1..nfields |->
                 IF \E i \in 1..Len(ptrs) : ptrs[i] = j
                   THEN values[CHOOSE i \in 1..Len(ptrs) :
                                 /\ ptrs[i] = j
                                 /\ \A k \in (i + 1)..Len(ptrs) : ptrs[k] # j]
                   ELSE 0]]

MapInit ==
  /\ CursorIdle
  /\ eval \in { Pending("getPointersToFields", <<cols, "nil", fields>>) :
                   cols \in SeqsUpTo(ColumnNames, MaxCols), fields \in StructTypes }
               \cup { Pending("getPointersToFields", <<<<>>, "ColumnsErr", fields>>) :
                        fields \in StructTypes }

getPointersToFieldsCall ==
  /\ eval.fn = "getPointersToFields" /\ ~eval.returned
  /\ eval' = Return(getPointersToFields(eval.arg[1], eval.arg[2], eval.arg[3]))
  /\ UNCHANGED cursorVars

MapSpec == MapInit /\ [][getPointersToFieldsCall]_vars

\* ------------------------------------------------------------ inspectType
\* reflect.Kind
ScalarKinds ==
  { "Bool", "Int", "Int8", "Int16", "Int32", "Int64", "Uint", "Uint8", "Uint16",
    "Uint32", "Uint64", "Uintptr", "Float32", "Float64", "String" }

Kinds ==
  ScalarKinds \cup { "Complex64", "Complex128", "Array", "Chan", "Func",
                     "Interface", "Map", "Pointer", "Slice", "Struct",
                     "UnsafePointer" }

\* A type parameter T: its kind, the kind of its elements (arrays, slices and
\* pointers), whether it is time.Time, and whether *T implements sql.Scanner.
\* time.Time is a struct without a Scan method; a pointer type and an
\* interface type have no methods of their own.
GoTypes ==
  { T \in [kind : Kinds, elem : Kinds \cup {"none"}, isTime : BOOLEAN,
           scan : BOOLEAN] :
      /\ (T.elem # "none") <=> (T.kind \in {"Array", "Slice", "Pointer"})
      /\ T.isTime => (T.kind = "Struct" /\ ~T.scan)
      /\ T.kind \in {"Pointer", "Interface"} => ~T.scan }

typeinfo(valid, isStruct, implementsScan, isTimeDotTime) ==
  [valid |-> valid, isStruct |-> isStruct, implementsScan |-> implementsScan,
   isTimeDotTime |-> isTimeDotTime, panic |-> FALSE]

\* reflect.TypeOf of a nil interface value is nil: typ.Kind() panics
KindOfNilPanics == [typeinfo(FALSE, FALSE, FALSE, FALSE) EXCEPT !.panic = TRUE]

isScalar(k) == k \in ScalarKinds

\* faulty variant: the struct kind is tested first, as before time.Time and
\* sql.Scanner were recognised
inspectTypeStructFirst(T) ==
  IF T.kind = "Interface" THEN KindOfNilPanics
  ELSE IF T.kind = "Struct" THEN typeinfo(TRUE, TRUE, FALSE, FALSE)
  ELSE IF T.isTime THEN typeinfo(TRUE, FALSE, FALSE, TRUE)
  ELSE IF T.scan THEN typeinfo(TRUE, FALSE, TRUE, FALSE)
  ELSE IF isScalar(T.kind) \/ T.scan THEN typeinfo(TRUE, FALSE, FALSE, FALSE)
  ELSE IF T.kind = "Slice" /\ T.elem = "Uint8"
    THEN typeinfo(TRUE, FALSE, FALSE, FALSE)
  ELSE typeinfo(FALSE, FALSE, FALSE, FALSE)

\* faulty variant: every slice is accepted
inspectTypeAnySlice(T) ==
  IF T.kind = "Interface" THEN KindOfNilPanics
  ELSE IF T.isTime THEN typeinfo(TRUE, FALSE, FALSE, TRUE)
  ELSE IF T.scan THEN typeinfo(TRUE, FALSE, TRUE, FALSE)
  ELSE IF T.kind = "Struct" THEN typeinfo(TRUE, TRUE, FALSE, FALSE)
  ELSE IF isScalar(T.kind) \/ T.scan THEN typeinfo(TRUE, FALSE, FALSE, FALSE)
  ELSE IF T.kind = "Slice" THEN typeinfo(TRUE, FALSE, FALSE, FALSE)
  ELSE typeinfo(FALSE, FALSE, FALSE, FALSE)

\* faulty variant: the special case of []byte is missing
inspectTypeNoByteSlice(T) ==
  IF T.kind = "Interface" THEN KindOfNilPanics
  ELSE IF T.isTime THEN typeinfo(TRUE, FALSE, FALSE, TRUE)
  ELSE IF T.scan THEN typeinfo(TRUE, FALSE, TRUE, FALSE)
  ELSE IF T.kind = "Struct" THEN typeinfo(TRUE, TRUE, FALSE, FALSE)
  ELSE IF isScalar(T.kind) \/ T.scan THEN typeinfo(TRUE, FALSE, FALSE, FALSE)
  ELSE typeinfo(FALSE, FALSE, FALSE, FALSE)

inspectType(T) ==
  IF T.kind = "Interface" THEN KindOfNilPanics
  ELSE IF T.isTime THEN typeinfo(TRUE, FALSE, FALSE, TRUE)
  ELSE IF T.scan THEN typeinfo(TRUE, FALSE, TRUE, FALSE)
  ELSE IF T.kind = "Struct" THEN typeinfo(TRUE, TRUE, FALSE, FALSE)
  ELSE IF isScalar(T.kind) \/ T.scan THEN typeinfo(TRUE, FALSE, FALSE, FALSE)
  ELSE IF T.kind = "Slice" /\ T.elem = "Uint8"
    THEN typeinfo(TRUE, FALSE, FALSE, FALSE)
  ELSE typeinfo(FALSE, FALSE, FALSE, FALSE)

TypeInit ==
  /\ CursorIdle
  /\ eval \in { Pending("inspectType", T) : T \in GoTypes }

inspectTypeCall ==
  /\ eval.fn = "inspectType" /\ ~eval.returned
  /\ eval' = Return(inspectType(eval.arg))
  /\ UNCHANGED cursorVars

TypeSpec == TypeInit /\ [][inspectTypeCall]_vars

\* ------------------------------------------------------ GoMSSQLDispatcher
\* The values handed to GoMSSQLDispatcher: the nil interface, a value that is
\* no function, a function declared at package level, or a function literal
\* (the index-th closure of the function named decl).
ArgTypeLists == { <<>>, <<"string", "int64">> }

DeclaredNames == { "Handler", "Audit", "myfunc1" }

FuncValues ==
  { [kind |-> "func", decl |-> d, closure |-> FALSE, index |-> "", in |-> a] :
      d \in DeclaredNames, a \in ArgTypeLists }
  \cup { [kind |-> "func", decl |-> d, closure |-> TRUE, index |-> i, in |-> <<>>] :
           d \in {"Handler", "Audit"}, i \in {"func1", "func2"} }

NotAFunc == [kind |-> "string", decl |-> "", closure |-> FALSE, index |-> "",
             in |-> <<>>]

NilValue == [NotAFunc EXCEPT !.kind = "nil"]

ProvidedValues == FuncValues \cup { NotAFunc, NilValue }

\* runtime.FuncForPC(pc).Name(), already split: strings.Split(fullName, "/")
\* gives the sequence, strings.Split(_, ".") the parts of each element
FuncForPCName(f) ==
  << <<"github", "com">>, <<"vippsas">>,
     IF f.closure THEN <<"app", f.decl, f.index>> ELSE <<"app", f.decl>> >>

\* regexp.Match(`func\d+`, fName): the pattern is not anchored
MatchesFuncDigits(fName) == fName \in { "func1", "func2", "myfunc1" }

getFunctionName(paths) ==
  IF MatchesFuncDigits(paths[Len(paths)][Len(paths[Len(paths)])])
    THEN [name |-> paths[Len(paths)][Len(paths[Len(paths)]) - 1],
          isClosure |-> TRUE]
    ELSE [name |-> paths[Len(paths)][Len(paths[Len(paths)])],
          isClosure |-> FALSE]

\* fInfo of a function value
funcInfo(f) ==
  [name |-> getFunctionName(FuncForPCName(f)).name,
   isClosure |-> getFunctionName(FuncForPCName(f)).isClosure,
   numArgs |-> Len(f.in), argType |-> f.in, valueOf |-> f]

\* the constructor panics: no dispatcher is returned
Panics(msg) == [panic |-> msg, funcMap |-> <<>>]

\* the loop over fs of GoMSSQLDispatcher, funcMap holding the functions
\* registered so far
RECURSIVE Register(_, _)
Register(fs, funcMap) ==
  IF fs = <<>> THEN [panic |-> "nil", funcMap |-> funcMap]
  ELSE IF Head(fs).kind = "nil"
    THEN Panics("invalid memory address or nil pointer dereference")
  ELSE IF Head(fs).kind # "func" THEN Panics("Provided type is not a function")
  ELSE IF funcInfo(Head(fs)).name \in DOMAIN funcMap
    THEN Panics("Function already in dispatcher")
  ELSE Register(Tail(fs),
                funcMap @@ (funcInfo(Head(fs)).name :> funcInfo(Head(fs))))

GoMSSQLDispatcher(fs) == Register(fs, <<>>)

DispatcherInit ==
  /\ CursorIdle
  /\ eval \in { Pending("GoMSSQLDispatcher", fs) :
                   fs \in SeqsUpTo(ProvidedValues, MaxFuncs) }

GoMSSQLDispatcherCall ==
  /\ eval.fn = "GoMSSQLDispatcher" /\ ~eval.returned
  /\ eval' = Return(GoMSSQLDispatcher(eval.arg))
  /\ UNCHANGED cursorVars

DispatcherSpec == DispatcherInit /\ [][GoMSSQLDispatcherCall]_vars

\* ------------------------------------------- the dispatcher at dispatch time
\* The registry the dispatch closure is built over, and the names it lists in
\* its "could not find" error (knownFuncs), in registration order.
RegisteredFuncs ==
  << [kind |-> "func", decl |-> "Handler", closure |-> FALSE, index |-> "",
      in |-> <<"string", "int64">>],
     [kind |-> "func", decl |-> "Audit", closure |-> FALSE, index |-> "",
      in |-> <<>>] >>

knownFuncs(fs) == [i \in 1..Len(fs) |-> funcInfo(fs[i]).name]

\* A value the driver scans into an interface{}: its dynamic Go type t ("nil"
\* for NULL) and its content v.
NullValue == [t |-> "nil", v |-> ""]

\* the values a column of database type db can hold; first is the name column
ValuesOf(db, first) ==
  { NullValue }
  \cup CASE db = "NVARCHAR" ->
              IF first
                THEN { [t |-> "string", v |-> n] : n \in {"Handler", "Audit", "Missing"} }
                ELSE { [t |-> "string", v |-> "abc"] }
         [] db = "BIGINT" -> { [t |-> "int64", v |-> "1"] }
         [] db = "DECIMAL" -> { [t |-> "[]uint8", v |-> x] : x \in {"1.5", "apple"} }

\* the result sets handed to the dispatcher: column types and rows
DispatchSets ==
  UNION { UNION { { [colTypes |-> ct, rows |-> rows] :
                      rows \in SeqsUpTo({ r \in [1..n -> UNION { ValuesOf(ct[i], i = 1) : i \in 1..n }] :
                                            \A i \in 1..n : r[i] \in ValuesOf(ct[i], i = 1) },
                                        MaxRows) } :
                  ct \in { c \in [1..n -> {"NVARCHAR", "BIGINT", "DECIMAL"}] :
                             c[1] # "DECIMAL" } } :
          n \in 1..MaxCols }

\* what the driver does wrong during the dispatch, if anything
DispatchFaults == { "none", "columns", "columnTypes", "scan", "rows" }

\* the outcome of a dispatch: the error returned, whether it panicked
\* instead of returning, and the calls made of registered functions
Outcome(err, detail, panic, called) ==
  [err |-> err, detail |-> detail, panic |-> panic, called |-> called]

\* strconv.ParseFloat(str, 64)
ParseFloat(str) == IF str = "1.5" THEN [t |-> "float64", v |-> str, err |-> FALSE]
                   ELSE [t |-> "float64", v |-> "0", err |-> TRUE]

\* reflect: a value of type from can be converted to type to
ConvertibleTo(from, to) ==
  \/ from = to
  \/ <<from, to>> \in { <<"int64", "float64">>, <<"float64", "int64">>,
                        <<"int64", "string">>, <<"[]uint8", "string">>,
                        <<"string", "[]uint8">> }

\* the switch on the MSSQL type of a []uint8 value
IsDecimalText(value, db) == value.t = "[]uint8" /\ db \in {"DECIMAL", "MONEY"}

\* the loop binding fields[i..] to in[i-1..]: in is what is bound so far
RECURSIVE BindArgs(_, _, _, _, _)
BindArgs(fInfo, colTypes, fields, i, in) ==
  IF i > Len(fields) THEN Outcome("nil", <<>>, FALSE, << [name |-> fInfo.name, in |-> in] >>)
  ELSE IF IsDecimalText(fields[i], colTypes[i]) /\ ParseFloat(fields[i].v).err
    THEN Outcome("could not convert argument", <<i>>, FALSE, <<>>)
  ELSE IF IsDecimalText(fields[i], colTypes[i])
    THEN BindArgs(fInfo, colTypes,
                  [fields EXCEPT ![i] = [t |-> "float64", v |-> ParseFloat(fields[i].v).v]],
                  i, in)
  ELSE IF fInfo.argType[i - 1] = fields[i].t
    THEN BindArgs(fInfo, colTypes, fields, i + 1, Append(in, fields[i]))
  ELSE IF fields[i].t = "nil"
    THEN Outcome("nil", <<"reflect: call of reflect.Value.Type on zero Value">>,
                 TRUE, <<>>)
  ELSE IF ~ConvertibleTo(fields[i].t, fInfo.argType[i - 1])
    THEN Outcome("expected parameter to be of type", <<i>>, FALSE, <<>>)
  ELSE BindArgs(fInfo, colTypes, fields, i + 1,
                Append(in, [t |-> fInfo.argType[i - 1], v |-> fields[i].v]))

\* rows.Err() after the call
AfterCall(o, drv) ==
  IF o.called # <<>> /\ drv = "rows" THEN [o EXCEPT !.err = "RowsErr"] ELSE o

\* faulty variant: a null name is reported as an error
dispatchFieldsNullIsError(funcMap, known, colTypes, fields, drv) ==
  IF fields[1].t # "string"
    THEN Outcome("first argument to 'select' is expected to be a string",
                 <<>>, FALSE, <<>>)
  ELSE IF fields[1].v \notin DOMAIN funcMap
    THEN Outcome("could not find", known, FALSE, <<>>)
  ELSE IF Len(fields) - 1 # funcMap[fields[1].v].numArgs
    THEN Outcome("incorrect number of parameters", <<>>, FALSE, <<>>)
  ELSE AfterCall(BindArgs(funcMap[fields[1].v], colTypes, fields, 2, <<>>), drv)

\* the dispatch closure from the name check on: fields is what the scan loop
\* left in the buffer
dispatchFields(funcMap, known, colTypes, fields, drv) ==
  IF fields[1].t # "string"
    THEN IF fields[1].t = "nil" THEN Outcome("nil", <<>>, FALSE, <<>>)
         ELSE Outcome("first argument to 'select' is expected to be a string",
                      <<>>, FALSE, <<>>)
  ELSE IF fields[1].v \notin DOMAIN funcMap
    THEN Outcome("could not find", known, FALSE, <<>>)
  ELSE IF Len(fields) - 1 # funcMap[fields[1].v].numArgs
    THEN Outcome("incorrect number of parameters", <<>>, FALSE, <<>>)
  ELSE AfterCall(BindArgs(funcMap[fields[1].v], colTypes, fields, 2, <<>>), drv)

\* the buffer after `for rows.Next() { rows.Scan(scanPointers...) }`
ScannedFields(set) ==
  IF set.rows = <<>> THEN [i \in 1..Len(set.colTypes) |-> NullValue]
  ELSE set.rows[Len(set.rows)]

\* the closure GoMSSQLDispatcher(fs) returns, run on one result set
RowsGoDispatcher(fs, set, drv) ==
  IF drv = "columns" THEN Outcome("ColumnsErr", <<>>, FALSE, <<>>)
  ELSE IF drv = "columnTypes" THEN Outcome("ColumnTypesErr", <<>>, FALSE, <<>>)
  ELSE IF drv = "scan" /\ set.rows # <<>> THEN Outcome("ScanErr", <<>>, FALSE, <<>>)
  ELSE dispatchFields(GoMSSQLDispatcher(fs).funcMap, knownFuncs(fs),
                      set.colTypes, ScannedFields(set), drv)

DispatchInit ==
  /\ CursorIdle
  /\ eval \in { Pending("RowsGoDispatcher", [set |-> s, drv |-> f]) :
                   s \in DispatchSets, f \in DispatchFaults }

RowsGoDispatcherCall ==
  /\ eval.fn = "RowsGoDispatcher" /\ ~eval.returned
  /\ eval' = Return(RowsGoDispatcher(RegisteredFuncs, eval.arg.set, eval.arg.drv))
  /\ UNCHANGED cursorVars

DispatchSpec == DispatchInit /\ [][RowsGoDispatcherCall]_vars

\* ------------------------------------------------------------ hasLogColumn
\* rs.LogKeyLowercase is a public field: the caller may store any key in it
LogKeys == { "", "_log", "_LOG" }

LogColumnNames == { "_", "_log", "_LOG", "x" }

LogColumnInit ==
  /\ CursorIdle
  /\ eval \in { Pending("hasLogColumn", [key |-> k, cols |-> c]) :
                   k \in LogKeys, c \in SeqsUpTo(LogColumnNames, MaxCols) }

hasLogColumnCall ==
  /\ eval.fn = "hasLogColumn" /\ ~eval.returned
  /\ eval' = Return(hasLogColumn([New(TRUE, "nil", FALSE) EXCEPT
                                    !.LogKeyLowercase = eval.arg.key],
                                 eval.arg.cols))
  /\ UNCHANGED cursorVars

LogColumnSpec == LogColumnInit /\ [][hasLogColumnCall]_vars

\* ------------------------------------------------------- LogrusMSSQLLogger
\* A log result set as the logger reads it: the names and database types of
\* its columns (the first is the marker column holding the level), the level
\* of each row ("NULL" for a null), and whether the iteration ends in an
\* error.  A column holds the one value of its database type in every row.
LogSets ==
  { [cols |-> <<"_">> \o names, colTypes |-> <<"NVARCHAR">> \o types,
     levels |-> levels, rowsErr |-> e] :
      names \in SeqsUpTo({"x", "y", "_norows"}, MaxFields),
      types \in SeqsUpTo({"NVARCHAR", "VARBINARY", "MONEY"}, MaxFields),
      levels \in SeqsUpTo({"info", "warning", "1", "NULL"}, MaxRows),
      e \in BOOLEAN }

\* what rows.Scan stores for a column of database type db
ScannedValue(db) ==
  IF db = "NVARCHAR" THEN [t |-> "string", v |-> "a"]
  ELSE IF db = "MONEY" THEN [t |-> "[]uint8", v |-> "1.5"]
  ELSE [t |-> "[]uint8", v |-> "01"]

\* logrus.ParseLevel
ParseLevel(lvl) ==
  IF lvl \in {"panic", "fatal", "error", "warning", "info", "debug", "trace"}
    THEN [level |-> lvl, err |-> FALSE]
    ELSE [level |-> "", err |-> TRUE]

\* the switch that makes []uint8 values readable
Readable(value, db) ==
  IF value.t # "[]uint8" THEN value
  ELSE IF db = "MONEY" THEN [t |-> "string", v |-> value.v]
  ELSE [t |-> "string", v |-> "0x" \o value.v]

\* an entry handed to the log sink
Entry(level, fields) == [level |-> level, fields |-> fields]

\* sublogger.WithField(cols[i], value) for the columns from i on
RECURSIVE WithRowFields(_, _, _)
WithRowFields(set, i, fields) ==
  IF i > Len(set.cols) THEN fields
  ELSE WithRowFields(set, i + 1,
                     (set.cols[i] :> Readable(ScannedValue(set.colTypes[i]),
                                              set.colTypes[i])) @@ fields)

\* the entry reporting a level that does not parse
InvalidLevelEntry(lvl) ==
  Entry("error", ("event" :> [t |-> "string", v |-> "invalid.log.level"])
                 @@ ("invalid.level" :> [t |-> "string", v |-> lvl]))

\* faulty variant: the level that does not parse is not reported
RowEntriesSilent(set, lvl, defaultLogLevel) ==
  << Entry(IF ParseLevel(lvl).err THEN defaultLogLevel ELSE ParseLevel(lvl).level,
           WithRowFields(set, 2, <<>>)) >>

\* the entries one row with level lvl produces
RowEntries(set, lvl, defaultLogLevel) ==
  IF ParseLevel(lvl).err
    THEN << InvalidLevelEntry(lvl),
            Entry(defaultLogLevel, WithRowFields(set, 2, <<>>)) >>
    ELSE << Entry(ParseLevel(lvl).level, WithRowFields(set, 2, <<>>)) >>

\* l.WithField(col, "") for the columns from i on
RECURSIVE WithEmptyFields(_, _, _)
WithEmptyFields(cols, i, fields) ==
  IF i > Len(cols) THEN fields
  ELSE WithEmptyFields(cols, i + 1, (cols[i] :> [t |-> "string", v |-> ""]) @@ fields)

\* faulty variant: the no-rows entry is written for every result set
NoRowsEntryAlways(set, hadRow, defaultLogLevel) ==
  << Entry(defaultLogLevel,
           WithEmptyFields(set.cols, 2, "_norows" :> [t |-> "bool", v |-> "true"])) >>

\* the entry written when the result set had no row
NoRowsEntry(set, hadRow, defaultLogLevel) ==
  IF hadRow THEN <<>>
  ELSE << Entry(defaultLogLevel,
                WithEmptyFields(set.cols, 2, "_norows" :> [t |-> "bool", v |-> "true"])) >>

\* the loop over the rows from row i on, entries being what is logged so far,
\* and what follows the loop
RECURSIVE LogRows(_, _, _, _)
LogRows(set, defaultLogLevel, i, entries) ==
  IF i > Len(set.levels)
    THEN IF set.rowsErr THEN [entries |-> entries, err |-> "RowsErr"]
         ELSE [entries |-> entries \o NoRowsEntry(set, i > 1, defaultLogLevel),
               err |-> "nil"]
  ELSE IF set.levels[i] = "NULL" THEN [entries |-> entries, err |-> "ScanErr"]
  ELSE LogRows(set, defaultLogLevel, i + 1,
               entries \o RowEntries(set, set.levels[i], defaultLogLevel))

LogrusMSSQLLogger(set, defaultLogLevel) == LogRows(set, defaultLogLevel, 1, <<>>)

LoggerInit ==
  /\ CursorIdle
  /\ eval \in { Pending("LogrusMSSQLLogger", [set |-> s, defaultLogLevel |-> d]) :
                   s \in { x \in LogSets : Len(x.cols) = Len(x.colTypes) },
                   d \in {"info", "debug"} }

LogrusMSSQLLoggerCall ==
  /\ eval.fn = "LogrusMSSQLLogger" /\ ~eval.returned
  /\ eval' = Return(LogrusMSSQLLogger(eval.arg.set, eval.arg.defaultLogLevel))
  /\ UNCHANGED cursorVars

LoggerSpec == LoggerInit /\ [][LogrusMSSQLLoggerCall]_vars

\* ------------------------------------------------------- ParseSQLUUIDBytes
\* byte strings of every length up to MaxBytes: counting up from a first
\* byte, and all zero but for one byte
ByteStrings ==
  UNION { { [i \in 1..n |-> (k + i - 1) % 256] : k \in {0, 16, 250} }
          \cup { [i \in 1..n |-> IF i = p THEN 255 ELSE 0] : p \in 1..n } :
          n \in 0..MaxBytes }

\* uuid.UUID{}
NilUUID == [i \in 1..UUIDLen |-> 0]

\* faulty variant: bytes 8 and 9 are exchanged like the pairs before them
ParseSQLUUIDBytesSwaps89(v) ==
  IF Len(v) # UUIDLen
    THEN [uuid |-> NilUUID, err |-> "ParseSQLUUIDBytes: did not get 16 bytes"]
    ELSE [uuid |-> << v[4], v[3], v[2], v[1], v[6], v[5], v[8], v[7],
                      v[10], v[9], v[11], v[12], v[13], v[14], v[15], v[16] >>,
          err |-> "nil"]

\* shuffled[k] of the code is element k + 1 here
ParseSQLUUIDBytes(v) ==
  IF Len(v) # UUIDLen
    THEN [uuid |-> NilUUID, err |-> "ParseSQLUUIDBytes: did not get 16 bytes"]
    ELSE [uuid |-> << v[4], v[3], v[2], v[1], v[6], v[5], v[8], v[7],
                      v[9], v[10], v[11], v[12], v[13], v[14], v[15], v[16] >>,
          err |-> "nil"]

UUIDInit ==
  /\ CursorIdle
  /\ eval \in { Pending("ParseSQLUUIDBytes", v) : v \in ByteStrings }

ParseSQLUUIDBytesCall ==
  /\ eval.fn = "ParseSQLUUIDBytes" /\ ~eval.returned
  /\ eval' = Return(ParseSQLUUIDBytes(eval.arg))
  /\ UNCHANGED cursorVars

UUIDSpec == UUIDInit /\ [][ParseSQLUUIDBytesCall]_vars

\* ------------------------------------- DoTransactional, RetryTransactional
\* An error is the sequence of its message parts, the wrapped error last; the
\* nil error is the empty sequence.
NoErr == <<>>

\* the error Rollback() returns
RollbackError == <<"Rollback transaction">>

\* what the collaborators of one attempt do: BeginTx, Commit and Rollback
\* return an error, txFunc returns an error or panics
TxFuncOutcomes == { NoErr, <<"TxErr">>, RollbackError, <<"panic">> }

Attempts ==
  [ begin : { NoErr, <<"BeginErr">> },
    fn : TxFuncOutcomes,
    commit : { NoErr, <<"CommitErr">> },
    rollback : { NoErr, <<"RollbackErr">>, <<"error 3903">> } ]

\* the outcome of a call: the error returned unless it panicked, and the
\* calls made on the database and on txFunc, in order
TxDone(err, panicked, trace) == [err |-> err, panicked |-> panicked, trace |-> trace]

MssqlErrorRollbackWithoutCorrespondingTransaction == 3903

\* the test of the error number is commented out
IsMssqlError(e, errorCode) == FALSE

IsRedundantRollbackError(e) ==
  IsMssqlError(e, MssqlErrorRollbackWithoutCorrespondingTransaction)

\* the test for a RollbackError is commented out
IsRollbackRequest(err) == FALSE

\* fmt.Errorf with %w
Wrapf(before, err, after) == before \o err \o after

\* tx.Rollback() after txFunc returned err; ifRolledBack is returned when the
\* rollback succeeds
RollbackAfter(a, err, ifRolledBack, trace) ==
  IF a.rollback # NoErr
    THEN IF IsRedundantRollbackError(a.rollback)
           THEN TxDone(err, FALSE, Append(trace, "Rollback"))
           ELSE TxDone(Wrapf(<<>>, a.rollback, <<"while attempting rollback">> \o err),
                       FALSE, Append(trace, "Rollback"))
    ELSE TxDone(ifRolledBack, FALSE, Append(trace, "Rollback"))

\* faulty variant: the transaction is committed whatever txFunc returned
DoTransactionalAlwaysCommits(a) ==
  IF a.begin # NoErr
    THEN TxDone(Wrapf(<<"Failed to begin tx">>, a.begin, <<>>), FALSE, <<"BeginTx">>)
  ELSE IF a.fn = <<"panic">>
    THEN TxDone(NoErr, TRUE, <<"BeginTx", "txFunc", "Rollback">>)
  ELSE TxDone(IF a.commit # NoErr
                THEN Wrapf(<<>>, a.commit, <<"while attempting commit">>)
                ELSE NoErr,
              FALSE, <<"BeginTx", "txFunc", "Commit">>)

\* DoTransactional with collaborators that behave as a says; a panic of
\* txFunc is recovered by the deferred RollbackOnPanic, which rolls back and
\* panics again
DoTransactional(a) ==
  IF a.begin # NoErr
    THEN TxDone(Wrapf(<<"Failed to begin tx">>, a.begin, <<>>), FALSE, <<"BeginTx">>)
  ELSE IF a.fn = <<"panic">>
    THEN TxDone(NoErr, TRUE, <<"BeginTx", "txFunc", "Rollback">>)
  ELSE IF a.fn = NoErr
    THEN TxDone(IF a.commit # NoErr
                  THEN Wrapf(<<>>, a.commit, <<"while attempting commit">>)
                  ELSE NoErr,
                FALSE, <<"BeginTx", "txFunc", "Commit">>)
  ELSE IF IsRollbackRequest(a.fn)
    THEN RollbackAfter(a, a.fn, NoErr, <<"BeginTx", "txFunc">>)
  ELSE RollbackAfter(a, a.fn, Wrapf(<<>>, a.fn, <<"successfully rolled back">>),
                     <<"BeginTx", "txFunc">>)

DoTransactionalInit ==
  /\ CursorIdle
  /\ eval \in { Pending("DoTransactional", a) : a \in Attempts }

DoTransactionalCall ==
  /\ eval.fn = "DoTransactional" /\ ~eval.returned
  /\ eval' = Return(DoTransactional(eval.arg))
  /\ UNCHANGED cursorVars

RECURSIVE RetryLoop(_, _, _, _, _)

\* faulty variant: a failed attempt is the last one
RetryStepGivesUp(d, script, attemptLimit, attempt, trace) ==
  TxDone(d.err, d.panicked, trace \o d.trace)

\* the loop body of RetryTransactional, after DoTransactional returned d (or
\* panicked: RetryTransactional recovers nothing); the sleep between two
\* attempts changes nothing that is told apart here
RetryStep(d, script, attemptLimit, attempt, trace) ==
  IF d.panicked THEN TxDone(NoErr, TRUE, trace \o d.trace)
  ELSE IF d.err = NoErr THEN TxDone(NoErr, FALSE, trace \o d.trace)
  ELSE RetryLoop(script, attemptLimit, attempt + 1, d.err, trace \o d.trace)

\* for attempt := 1; attempt <= attemptLimit; attempt++, with err as the last
\* attempt left it; script[k] is what the collaborators do at attempt k
RetryLoop(script, attemptLimit, attempt, err, trace) ==
  IF attempt > attemptLimit THEN TxDone(err, FALSE, trace)
  ELSE RetryStep(DoTransactional(script[attempt]), script, attemptLimit,
                 attempt, trace)

RetryTransactional(script, attemptLimit) ==
  RetryLoop(script, attemptLimit, 1, NoErr, <<>>)

RetryInit ==
  /\ CursorIdle
  /\ eval \in { Pending("RetryTransactional", [script |-> s, attemptLimit |-> n]) :
                  s \in [1..MaxAttempts -> Attempts], n \in -1..MaxAttempts }

RetryTransactionalCall ==
  /\ eval.fn = "RetryTransactional" /\ ~eval.returned
  /\ eval' = Return(RetryTransactional(eval.arg.script, eval.arg.attemptLimit))
  /\ UNCHANGED cursorVars

TxSpec ==
  /\ DoTransactionalInit \/ RetryInit
  /\ [][DoTransactionalCall \/ RetryTransactionalCall]_vars

\* ------------------------------------------ a cursor and its logger-less twin
\* successive calls of NextResult, one for each accumulator of kinds; results
\* collects what each call returned
Returned(r) == [value |-> r.value, err |-> r.err, nextErr |-> r.nextErr, res |-> r.res]

RECURSIVE NextCalls(_, _, _), NextCallsStep(_, _, _)
NextCalls(w, kinds, results) ==
  IF kinds = <<>> THEN [w |-> w, results |-> results]
  ELSE NextCallsStep(NextResult(w, Head(kinds)), Tail(kinds), results)
NextCallsStep(r, kinds, results) ==
  NextCalls(r.w, kinds, Append(results, Returned(r)))

\* the same query run by a cursor whose Logger is nil
WithoutLogger(w) == [w EXCEPT !.rs.Logger = FALSE]

\* a cursor with a log sink that drains each set and returns no error
TwinInit == Init /\ rs.Logger /\ fault.kind # "logger"

\* the calls are made on the cursor and on its twin; eval holds what the
\* twin returned and the state it ended in
TwinCalls(kinds, ensureDone) ==
  /\ calls = 0 /\ last.op = "New" /\ ~rs.DoneAfterNext /\ ~eval.returned
  /\ \E r \in { NextCalls(IF ensureDone THEN EnsureDoneAfterNext(World) ELSE World,
                          kinds, <<>>) } :
       /\ SetWorld(r.w)
       /\ last' = [NoOp EXCEPT !.op = "NextCalls", !.value = r.results]
  /\ \E t \in { NextCalls(WithoutLogger(IF ensureDone THEN EnsureDoneAfterNext(World)
                                        ELSE World), kinds, <<>>) } :
       eval' = [fn |-> "NextCalls", arg |-> kinds, returned |-> TRUE,
                out |-> [results |-> t.results, rs |-> t.w.rs, h |-> t.w.h,
                         scanned |-> t.w.scanned, logged |-> t.w.logged]]
  /\ calls' = Len(kinds)
  /\ plain' = FALSE
  /\ UNCHANGED <<stream, fault>>

TwinStep ==
  \E kinds \in SeqsUpTo(ScannerKinds, MaxCalls), ensureDone \in BOOLEAN :
    Len(kinds) > 0 /\ TwinCalls(kinds, ensureDone)

TwinSpec == TwinInit /\ [][TwinStep]_vars

\* ------------------------------------------------------ RowScanner.scanRow
\* The target type of a scanner: T, and its fields when T is a struct.
ScanTargets ==
  { [T |-> T, fields |-> <<>>] :
      T \in { U \in GoTypes : U.elem \in {"none", "Uint8"} } }
  \cup { [T |-> [kind |-> "Struct", elem |-> "none", isTime |-> FALSE, scan |-> FALSE],
          fields |-> fs] : fs \in InnerStructs }

\* a fresh RowScanner; inspected and mapped count the calls of inspectType
\* and getPointersToFields, scanned the rows stored, calls the calls of scanRow
NewRowScanner ==
  [init |-> FALSE, typeinfo |-> typeinfo(FALSE, FALSE, FALSE, FALSE),
   scanPointers |-> <<>>, inspected |-> 0, mapped |-> 0, scanned |-> 0,
   calls |-> 0, err |-> "nil"]

\* rows.Scan(scanner.scanPointers...): the destinations must be as many as
\* the columns and none of them nil
RowsScan(sc, cols) ==
  IF Len(sc.scanPointers) # Len(cols) \/ \E i \in 1..Len(sc.scanPointers) : sc.scanPointers[i] = 0
    THEN [sc EXCEPT !.err = "ScanErr"]
    ELSE [sc EXCEPT !.scanned = @ + 1]

\* the struct branch of the initialisation, getPointersToFields having returned g
WithPointers(sc, g, cols) ==
  IF g.err # "nil" THEN [sc EXCEPT !.mapped = @ + 1, !.err = g.err]
  ELSE RowsScan([sc EXCEPT !.mapped = @ + 1, !.scanPointers = g.ptrs], cols)

\* the initialisation, inspectType having returned ti
Initialise(sc, ti, target, cols) ==
  IF ti.panic THEN [sc EXCEPT !.err = "panic"]
  ELSE IF ~ti.valid THEN [sc EXCEPT !.err = "query.ScanRow: illegal type parameter T"]
  ELSE IF ti.isStruct
    THEN WithPointers(sc, getPointersToFields(cols, "nil", target.fields), cols)
  ELSE RowsScan([sc EXCEPT !.scanPointers = <<1>>], cols)

\* faulty variant: the type is inspected and the fields are mapped at every row
scanRowInitialisesEachRow(sc, target, cols) ==
  Initialise([sc EXCEPT !.init = TRUE, !.typeinfo = inspectType(target.T),
                        !.inspected = @ + 1, !.calls = @ + 1],
             inspectType(target.T), target, cols)

\* scanner.scanRow(rows) on a row of a result set with columns cols
scanRow(sc, target, cols) ==
  IF ~sc.init
    THEN Initialise([sc EXCEPT !.init = TRUE, !.typeinfo = inspectType(target.T),
                               !.inspected = @ + 1, !.calls = @ + 1],
                    inspectType(target.T), target, cols)
    ELSE RowsScan([sc EXCEPT !.calls = @ + 1], cols)

\* Next is about to scan a result set of rows rows and columns cols into a
\* fresh scanner of the target type
ScanRowInit ==
  /\ CursorIdle
  /\ eval \in { [Pending("scanRow", [target |-> t, cols |-> c, rows |-> n])
                   EXCEPT !.out = NewRowScanner] :
                  t \in ScanTargets, c \in SeqsUpTo(ColumnNames, MaxCols) \ {<<>>},
                  n \in 0..MaxRows }

\* for rs.Rows.Next() { scanner.ScanRow(rs.Rows) }: one more row
scanRowCall ==
  /\ eval.fn = "scanRow" /\ ~eval.returned
  /\ eval.out.calls < eval.arg.rows
  /\ \E sc \in { scanRow(eval.out, eval.arg.target, eval.arg.cols) } :
       eval' = [eval EXCEPT !.out = sc, !.returned = sc.err # "nil"]
  /\ UNCHANGED cursorVars

\* rs.Rows.Next() returns false
RowsExhausted ==
  /\ eval.fn = "scanRow" /\ ~eval.returned
  /\ eval.out.calls = eval.arg.rows
  /\ eval' = [eval EXCEPT !.returned = TRUE]
  /\ UNCHANGED cursorVars

ScanRowSpec == ScanRowInit /\ [][scanRowCall \/ RowsExhausted]_vars

\* ------------------------------------------------------------------- claims
\* result set i is log-marked: its first column is named "_", or has the
\* configured log key as its name, letter case aside
IsLog(i) ==
  /\ stream[i].cols # <<>>
  /\ \/ Head(stream[i].cols) = "_"
     \/ /\ rs.LogKeyLowercase # ""
        /\ ToLower(Head(stream[i].cols)) = rs.LogKeyLowercase

\* the indices of the result sets that are not log-marked, in stream order
DataIdx == SelectSeq([i \in 1..Len(stream) |-> i], LAMBDA i : ~IsLog(i))

\* the rows of result set i, in stream order
RowsOf(i) == [j \in 1..stream[i].rows |-> <<i, j>>]

AllHaveColumns == \A i \in 1..Len(stream) : stream[i].cols # <<>>

\* every result set after set i is log-marked
OnlyLogsAfter(i) == \A j \in (i + 1)..Len(stream) : IsLog(j)

IsIncreasing(s) == \A a, b \in 1..Len(s) : a < b => s[a] < s[b]

\* C1: on a fault-free stream whose result sets all have columns, of which D
\* are not log-marked, the k-th Next with a slice accumulator (k <= D) yields
\* exactly the rows of the k-th non-log result set, and call D+1 returns
\* ErrNoMoreSets (also for D = 0).
C1_SliceYieldsEachDataSet ==
  (fault.kind = "none" /\ AllHaveColumns /\ plain /\ calls >= 1) =>
    IF calls <= Len(DataIdx)
      THEN /\ last.nextErr = "nil"
           /\ last.err = "nil"
           /\ last.value = RowsOf(DataIdx[calls])
      ELSE last.nextErr = ErrNoMoreSets

C1_Witness ==
  /\ fault.kind = "none" /\ AllHaveColumns /\ plain
  /\ Len(stream) = 3 /\ IsLog(2) /\ Len(DataIdx) = 2
  /\ stream[3].rows = 2
  /\ calls = 3
  /\ last.nextErr = ErrNoMoreSets

\* C2: log-marked result sets are never passed to the caller's scanner; each
\* is handed to the log sink once at most, in stream order; and when Next
\* returns without error and the cursor is not Done, the stream is positioned
\* on a set that is not log-marked, every log-marked set before it drained.
C2_LogSetsOnlyReachTheLogSink ==
  /\ \A k \in 1..Len(scanned) : ~IsLog(scanned[k][1])
  /\ IsIncreasing(logged)
  /\ \A k \in 1..Len(logged) : IsLog(logged[k])
  /\ (last.op = "Next" /\ last.nextErr = "nil" /\ rs.Rows) =>
       /\ ~IsLog(h.set)
       /\ rs.Logger =>
            \A j \in 1..h.set : IsLog(j) => \E k \in 1..Len(logged) : logged[k] = j

\* C3: when Next has scanned the last caller-visible result set and only
\* log-marked sets follow it, the handle is closed and rs.Rows is nil when that
\* Next returns, by a single call of the close hook, and the following Next
\* returns ErrNoMoreSets.
C3_AutoCloseOnExhaustion ==
  ( /\ last.op = "Next" /\ last.scanAt > 0
    /\ last.nextErr \in {"nil", "CloseErr"} /\ rs.Err = "nil"
    /\ OnlyLogsAfter(last.scanAt) ) =>
      /\ ~rs.Rows
      /\ h.closed
      /\ hookCalls = 1
      /\ NextWithSqlResult(World, NewScanner("slice")).err = ErrNoMoreSets

C3_Witness ==
  /\ last.op = "Next" /\ last.scanAt = 2 /\ last.nextErr = "nil"
  /\ Len(stream) = 3 /\ IsLog(3) /\ ~IsLog(1)
  /\ last.value = RowsOf(2) /\ stream[2].rows = 2
  /\ ~rs.Rows /\ h.closed
  /\ ~last.doneAfterNext

\* C4: after any Next that returns a non-nil error the cursor is Done: rs.Rows
\* is nil and the handle, if the query produced one, is closed.
C4_ErrorLeavesCursorDone ==
  (last.op = "Next" /\ last.nextErr # "nil") =>
    (~rs.Rows /\ (fault.kind # "query" => h.closed))

\* C5: when QueryContext fails, New keeps the error as it is and every Next and
\* NextResult returns exactly that error, with no operation on the handle.
C5_QueryErrorIsReturnedUntouched ==
  fault.kind = "query" =>
    /\ rs.Err = "QueryErr"
    /\ h.ops = 0 /\ hookCalls = 0 /\ ~h.closed
    /\ scanned = <<>> /\ logged = <<>>
    /\ last.op = "Next" => (last.nextErr = "QueryErr" /\ last.err = "QueryErr")

C5_Witness ==
  /\ fault.kind = "query"
  /\ calls = 2
  /\ last.op = "Next" /\ last.err = "QueryErr"

\* C6: with DoneAfterNext set, a Next that has scanned a result set and drained
\* the log-marked sets after it returns ErrNotDone exactly when a further
\* result set remains, and the cursor is Done either way; when only log-marked
\* sets follow, the call succeeds (the close hook not failing).
C6_ErrNotDoneIffSetsRemain ==
  ( /\ last.op = "Next" /\ last.doneAfterNext /\ last.scanAt > 0
    /\ fault.kind \in {"none", "close"}
    /\ last.nextErr # ErrManyRowsExpectedOne ) =>
      /\ (last.nextErr = ErrNotDone) <=> ~OnlyLogsAfter(last.scanAt)
      /\ ~rs.Rows /\ h.closed
      /\ (OnlyLogsAfter(last.scanAt) /\ fault.kind = "none") => last.nextErr = "nil"

C6_Witness ==
  /\ last.op = "Next" /\ last.doneAfterNext /\ last.scanAt = 2
  /\ fault.kind = "none"
  /\ Len(stream) = 3 /\ IsLog(1) /\ IsLog(3)
  /\ last.nextErr = "nil" /\ last.err = "nil"
  /\ ~rs.Rows

\* C7: whenever Next leaves the stream on a result set with zero columns, the
\* handle is closed, the cursor is Done and the caller got ErrNoMoreSets.
C7_ZeroColumnsIsExhaustion ==
  (last.op = "Next" /\ fault.kind = "none" /\ stream[h.set].cols = <<>>) =>
    (~rs.Rows /\ h.closed /\ last.nextErr = ErrNoMoreSets)

\* C8: once rs.Rows is nil it stays nil, and every later Next returns
\* ErrNoMoreSets, or rs.Err when it is set, without a stream operation, a
\* scanner call, a logger call or a close.
C8_DoneIsAbsorbing ==
  [][ ~rs.Rows =>
        /\ ~rs'.Rows
        /\ calls' # calls =>
             /\ last'.nextErr = (IF rs.Err # "nil" THEN rs.Err ELSE ErrNoMoreSets)
             /\ h' = h /\ logged' = logged /\ scanned' = scanned
             /\ hookCalls' = hookCalls /\ rs' = rs ]_vars

C8_Witness ==
  /\ ~rs.Rows /\ rs.Err = "nil"
  /\ scanned # <<>>
  /\ last.op = "Next" /\ last.ops = 0 /\ last.nextErr = ErrNoMoreSets
  /\ calls >= 2

\* C9: Close on a cursor whose handle is nil returns nil and changes nothing,
\* and the close hook is invoked once at most over any sequence of calls.
C9_CloseIsIdempotent ==
  /\ hookCalls <= 1
  /\ ~rs.Rows => Close(World) = [w |-> World, err |-> "nil"]

C9_Witness ==
  /\ fault.kind = "close"
  /\ hookCalls = 1
  /\ last.op = "Close" /\ last.err = "nil"
  /\ scanned # <<>>

\* C10: when the close hook fails at the auto-close on exhaustion, the Next
\* that scanned every row of the last caller-visible set returns the close
\* error, and the cursor is Done.
C10_CloseErrorIsReturned ==
  ( /\ last.op = "Next" /\ last.scanAt > 0
    /\ fault.kind = "close"
    /\ last.nextErr # ErrManyRowsExpectedOne
    /\ OnlyLogsAfter(last.scanAt) ) =>
      /\ last.nextErr = "CloseErr" /\ last.err = "CloseErr"
      /\ ~rs.Rows /\ h.closed

C10_Witness ==
  /\ last.op = "Next" /\ last.scanAt = 1 /\ Len(stream) = 1
  /\ stream[1].rows = 1
  /\ fault.kind = "close"
  /\ last.doneAfterNext
  /\ last.err = "CloseErr"
  /\ ~rs.Rows

\* the rows of result set i passed to the caller's scanner so far, in order
ScannedOf(i) == SelectSeq(scanned, LAMBDA row : row[1] = i)

\* C11: a Next with the single-row accumulator on a result set of n rows gives
\* the zero-rows error for n = 0 and the row without error for n = 1 (the call
\* to Next itself succeeding); for n >= 2 it gives the many-rows error, with
\* exactly two rows fetched from the stream and the cursor closed.
C11_SingleExpectsExactlyOneRow ==
  (last.op = "Next" /\ last.kind = "single" /\ last.scanAt > 0) =>
    /\ (stream[last.scanAt].rows = 0 /\ last.nextErr = "nil") =>
         (last.err = ErrZeroRowsExpectedOne /\ last.value = <<>>)
    /\ (stream[last.scanAt].rows = 1 /\ last.nextErr = "nil") =>
         (last.err = "nil" /\ last.value = << <<last.scanAt, 1>> >>)
    /\ stream[last.scanAt].rows < 2 => last.nextErr \in {"nil", ErrNotDone}
    /\ stream[last.scanAt].rows >= 2 =>
         /\ last.nextErr = ErrManyRowsExpectedOne
         /\ last.err = ErrManyRowsExpectedOne
         /\ h.set = last.scanAt /\ h.row = 2
         /\ ScannedOf(last.scanAt) = << <<last.scanAt, 1>>, <<last.scanAt, 2>> >>
         /\ ~rs.Rows /\ h.closed

C11_Witness ==
  /\ last.op = "Next" /\ last.kind = "single" /\ last.scanAt = 1
  /\ stream[1].rows = 3
  /\ last.err = ErrManyRowsExpectedOne
  /\ h.row = 2 /\ h.closed

\* C13: a Next with the slice accumulator that succeeds gives exactly the rows
\* of the result set, in stream order, as many as the set has, and the empty
\* slice without error for a set of zero rows.
C13_SliceHoldsEveryRowInOrder ==
  (last.op = "Next" /\ last.kind = "slice" /\ last.scanAt > 0) =>
    /\ last.nextErr \in {"nil", ErrNotDone}
    /\ last.nextErr = "nil" =>
         /\ last.err = "nil"
         /\ Len(last.value) = stream[last.scanAt].rows
         /\ \A k \in 1..Len(last.value) : last.value[k] = <<last.scanAt, k>>
         /\ stream[last.scanAt].rows = 0 => last.value = <<>>

C13_Witness ==
  /\ last.op = "Next" /\ last.kind = "slice" /\ last.scanAt = 2
  /\ stream[2].rows = 3 /\ stream[1].rows = 1
  /\ last.err = "nil"
  /\ last.value = << <<2, 1>>, <<2, 2>>, <<2, 3>> >>

\* C14: a Next with the callback accumulator invokes visit once per row, in
\* stream order; when the k-th visit fails, k rows have been fetched and
\* visited, no more, the cursor is closed and the error of visit is returned;
\* otherwise the result is the number of rows.
C14_VisitOncePerRowUntilError ==
  (last.op = "Next" /\ last.kind = "iter" /\ last.scanAt > 0) =>
    IF FaultAt("visit", last.scanAt)
      THEN /\ last.nextErr = "VisitErr" /\ last.err = "VisitErr"
           /\ last.visits = SubSeq(RowsOf(last.scanAt), 1, fault.after)
           /\ h.set = last.scanAt /\ h.row = fault.after
           /\ ~rs.Rows /\ h.closed
      ELSE /\ last.visits = RowsOf(last.scanAt)
           /\ last.nextErr \in {"nil", ErrNotDone}
           /\ last.nextErr = "nil" =>
                (last.err = "nil" /\ last.value = stream[last.scanAt].rows)

C14_Witness ==
  /\ last.op = "Next" /\ last.kind = "iter" /\ last.scanAt = 1
  /\ stream[1].rows = 3
  /\ fault = [kind |-> "visit", at |-> 1, after |-> 2]
  /\ last.err = "VisitErr"
  /\ last.visits = << <<1, 1>>, <<1, 2>> >>
  /\ h.row = 2 /\ h.closed

\* C12: errors.Is(err, sql.ErrNoRows) is true for the error of a single-row
\* accumulator on an empty result set, errors.Is(sql.ErrNoRows, err) is false,
\* and errors.Is of the many-rows error and sql.ErrNoRows is false.
C12_ZeroRowsChainsNoRows ==
  (eval.fn = "errors.Is" /\ eval.returned) =>
    /\ eval.arg = <<EmptySingleError, ErrNoRows>> => eval.out = "true"
    /\ eval.arg = <<ErrNoRows, EmptySingleError>> => eval.out = "false"
    /\ eval.arg = <<NewManyRowsExpectedOne, ErrNoRows>> => eval.out = "false"

\* the canonical names of the columns and of the flattened fields of a call
ArgColumns == Canonical(eval.arg[1])

ArgNames == Canonical(deepFieldNamesOfStructType(eval.arg[3]))

NoDuplicates(s) == \A a, b \in 1..Len(s) : a # b => s[a] # s[b]

\* the two sequences hold the same names, each once
OneToOne(s, u) ==
  /\ NoDuplicates(s) /\ NoDuplicates(u)
  /\ { s[i] : i \in 1..Len(s) } = { u[i] : i \in 1..Len(u) }

\* C15: getPointersToFields returns no error only if the canonical column
\* names and the canonical flattened field names are in one-to-one
\* correspondence, and then the address of every exported field is returned
\* exactly once.
C15_MappingIsOneToOneOrFails ==
  (eval.fn = "getPointersToFields" /\ eval.returned
     /\ eval.out.err = "nil") =>
    /\ OneToOne(ArgColumns, ArgNames)
    /\ \A j \in 1..Len(ArgNames) :
         DeepFieldPointers(eval.arg[3])[j] # 0 =>
           Cardinality({ i \in 1..Len(eval.out.ptrs) : eval.out.ptrs[i] = j }) = 1

\* the permutations of 1..n
Perms(n) ==
  { p \in [1..n -> 1..n] : \A a, b \in 1..n : a # b => p[a] # p[b] }

\* column i carries field p[i]: its name, letter case aside
WritesFields(p) ==
  /\ Len(ArgColumns) = Len(ArgNames)
  /\ \A i \in 1..Len(ArgNames) : ArgColumns[i] = ArgNames[p[i]]

\* C16: when getPointersToFields returns no error, pointer i is the address
\* of a field whose canonical name is that of column i; and for every
\* permutation p, a row that carries field p[i] in a column of its name is
\* scanned back into the fields it came from.
C16_PointersFollowColumnOrder ==
  (eval.fn = "getPointersToFields" /\ eval.returned
     /\ eval.arg[2] = "nil") =>
    /\ eval.out.err = "nil" =>
         \A i \in 1..Len(eval.out.ptrs) :
           /\ eval.out.ptrs[i] # 0
           /\ ArgNames[eval.out.ptrs[i]] = ArgColumns[i]
    /\ \A p \in Perms(Len(ArgNames)) :
         WritesFields(p) =>
           /\ eval.out.err = "nil"
           /\ Scan(eval.out.ptrs, p, Len(ArgNames)) =
                [err |-> "nil", fields |-> [j \in 1..Len(ArgNames) |-> j]]

Inspected == eval.fn = "inspectType" /\ eval.returned

\* bool, the integer and float families, string, and the byte slice
ValidScalarType(T) ==
  isScalar(T.kind) \/ (T.kind = "Slice" /\ T.elem = "Uint8")

\* C17 as stated: every valid scalar type is valid and not struct-mode, every
\* struct type is valid and struct-mode, slices of structs, slices of non-byte
\* elements and pointer types are invalid, and struct-mode implies valid.
C17_AsStated ==
  Inspected =>
    /\ ValidScalarType(eval.arg) => (eval.out.valid /\ ~eval.out.isStruct)
    /\ eval.arg.kind = "Struct" => (eval.out.valid /\ eval.out.isStruct)
    /\ ( \/ (eval.arg.kind = "Slice" /\ eval.arg.elem # "Uint8")
         \/ eval.arg.kind = "Pointer" ) => ~eval.out.valid
    /\ eval.out.isStruct => eval.out.valid

\* C17, amended: as stated, for the struct types other than time.Time and the
\* slice types, provided the pointer to the type does not implement
\* sql.Scanner.
C17_ClassifiesByKind ==
  Inspected =>
    /\ ValidScalarType(eval.arg) => (eval.out.valid /\ ~eval.out.isStruct)
    /\ (eval.arg.kind = "Struct" /\ ~eval.arg.isTime /\ ~eval.arg.scan) =>
         (eval.out.valid /\ eval.out.isStruct)
    /\ ( \/ (eval.arg.kind = "Slice" /\ eval.arg.elem # "Uint8" /\ ~eval.arg.scan)
         \/ eval.arg.kind = "Pointer" ) => ~eval.out.valid
    /\ eval.out.isStruct => eval.out.valid

C17_Witness ==
  /\ Inspected
  /\ eval.arg = [kind |-> "Slice", elem |-> "Struct", isTime |-> FALSE,
                 scan |-> FALSE]
  /\ ~eval.out.valid /\ ~eval.out.isStruct

C19_TimeAndScannerAreScalar ==
  (Inspected /\ (eval.arg.isTime \/ eval.arg.scan)) =>
    (eval.out.valid /\ ~eval.out.isStruct)

C19_Witness ==
  /\ Inspected
  /\ eval.arg = [kind |-> "Struct", elem |-> "none", isTime |-> FALSE,
                 scan |-> TRUE]
  /\ eval.out = typeinfo(TRUE, FALSE, TRUE, FALSE)

\* the name of a provided function: the identifier it is declared with, and
\* for a function literal that of the function enclosing it
NameOf(f) == f.decl

\* C20: GoMSSQLDispatcher panics, returning no dispatcher, if a provided
\* value is not a function or two provided functions have the same name;
\* otherwise the registry has exactly one entry per provided function, under
\* its name, with its argument count and argument types.
C20_RegistrationFailsFastOrIsExact ==
  (eval.fn = "GoMSSQLDispatcher" /\ eval.returned) =>
    IF \/ \E i \in 1..Len(eval.arg) : eval.arg[i].kind # "func"
       \/ \E i, j \in 1..Len(eval.arg) :
            i # j /\ NameOf(eval.arg[i]) = NameOf(eval.arg[j])
      THEN eval.out.panic # "nil" /\ eval.out.funcMap = <<>>
      ELSE /\ eval.out.panic = "nil"
           /\ DOMAIN eval.out.funcMap =
                { NameOf(eval.arg[i]) : i \in 1..Len(eval.arg) }
           /\ \A i \in 1..Len(eval.arg) :
                /\ eval.out.funcMap[NameOf(eval.arg[i])].valueOf = eval.arg[i]
                /\ eval.out.funcMap[NameOf(eval.arg[i])].numArgs =
                     Len(eval.arg[i].in)
                /\ eval.out.funcMap[NameOf(eval.arg[i])].argType = eval.arg[i].in

\* the row the dispatcher acts on, and the parameter types the registered
\* function of that name declares
DispatchedRow == ScannedFields(eval.arg.set)

ParamsOf(name) ==
  RegisteredFuncs[CHOOSE i \in 1..Len(RegisteredFuncs) :
                    RegisteredFuncs[i].decl = name].in

RegisteredNames == { RegisteredFuncs[i].decl : i \in 1..Len(RegisteredFuncs) }

\* the Go type argument column i arrives with, decimal text parsed
ArrivesAs(i) ==
  IF DispatchedRow[i].t = "[]uint8" /\ eval.arg.set.colTypes[i] = "DECIMAL"
    THEN IF DispatchedRow[i].v = "1.5" THEN "float64" ELSE "unparsable"
    ELSE DispatchedRow[i].t

NameNotString == DispatchedRow[1].t \notin {"string", "nil"}

NameUnknown ==
  DispatchedRow[1].t = "string" /\ DispatchedRow[1].v \notin RegisteredNames

CountMismatch ==
  /\ DispatchedRow[1].t = "string" /\ DispatchedRow[1].v \in RegisteredNames
  /\ Len(DispatchedRow) - 1 # Len(ParamsOf(DispatchedRow[1].v))

ArgumentMismatch ==
  /\ DispatchedRow[1].t = "string" /\ DispatchedRow[1].v \in RegisteredNames
  /\ Len(DispatchedRow) - 1 = Len(ParamsOf(DispatchedRow[1].v))
  /\ \E i \in 2..Len(DispatchedRow) :
       ~ConvertibleTo(ArrivesAs(i), ParamsOf(DispatchedRow[1].v)[i - 1])

ValidationFails ==
  NameNotString \/ NameUnknown \/ CountMismatch \/ ArgumentMismatch

Dispatched ==
  /\ eval.fn = "RowsGoDispatcher" /\ eval.returned
  /\ eval.arg.drv \in {"none", "rows"}

\* C21: at dispatch time a name that is no string, an unknown name (the
\* error lists every registered name), a wrong column count (reported before
\* any argument is bound) and an argument that cannot be converted are each
\* reported as a returned error with no function invoked; the named function
\* is invoked exactly once, its arguments bound by position, exactly when
\* none of these checks fails.
C21_ValidationFailuresAreReturnedErrors ==
  Dispatched =>
    /\ ValidationFails =>
         ~eval.out.panic /\ eval.out.err # "nil" /\ eval.out.called = <<>>
    /\ NameUnknown => eval.out.detail = <<"Handler", "Audit">>
    /\ CountMismatch => eval.out.err = "incorrect number of parameters"
    /\ Len(eval.out.called) <= 1
    /\ (DispatchedRow[1].t = "string" /\ ~ValidationFails) <=>
         /\ Len(eval.out.called) = 1
         /\ eval.out.called[1].name = DispatchedRow[1].v
         /\ Len(eval.out.called[1].in) = Len(DispatchedRow) - 1
         /\ \A i \in 2..Len(DispatchedRow) :
              eval.out.called[1].in[i - 1].v = DispatchedRow[i].v

\* C22: a dispatch-marked result set with no rows, or whose name column is
\* null, dispatches nothing: the dispatcher returns no error and calls no
\* registered function.
C22_NullNameDispatchesNothing ==
  (Dispatched /\ (eval.arg.set.rows = <<>> \/ DispatchedRow[1] = NullValue)) =>
    /\ eval.out.err = "nil" /\ ~eval.out.panic
    /\ eval.out.called = <<>>

C22_Witness ==
  /\ Dispatched /\ eval.arg.set.rows # <<>> /\ DispatchedRow[1] = NullValue
  /\ Len(DispatchedRow) = 3 /\ DispatchedRow[2].t = "string"
  /\ eval.out.err = "nil" /\ eval.out.called = <<>>

\* the dispatcher has failed on a result set
DispatcherFailed == \E k \in 1..Len(dispatched) : dispatched[k].err # "nil"

\* C23: when the dispatcher fails on a dispatch-marked result set, the Next
\* in progress returns that error, the cursor is closed and Done, no later
\* dispatch-marked result set is processed, and the Next after it returns
\* ErrNoMoreSets.
C23_DispatcherFailureEndsTheCursor ==
  /\ [](DispatcherFailed =>
          /\ ~rs.Rows /\ h.closed
          /\ dispatched[Len(dispatched)].err # "nil")
  /\ [][ /\ (DispatcherFailed' /\ ~DispatcherFailed) =>
              last'.nextErr = dispatched'[Len(dispatched')].err
         /\ (DispatcherFailed /\ calls' = calls + 1) =>
              last'.nextErr = ErrNoMoreSets /\ dispatched' = dispatched ]_vars

C25_LogColumnSetsAreNotData ==
  \A i \in 1..Len(stream) :
    (stream[i].cols # <<>> /\ stream[i].cols[1] = "_log") =>
      /\ last.scanAt # i
      /\ \A k \in 1..Len(scanned) : scanned[k][1] # i
      /\ (rs.Logger /\ h.set > i) => \E k \in 1..Len(logged) : logged[k] = i

Logged == eval.fn = "LogrusMSSQLLogger" /\ eval.returned

\* the non-marker columns of the log result set under evaluation
NonMarkerColumns == { eval.arg.set.cols[i] : i \in 2..Len(eval.arg.set.cols) }

\* entry e is the entry written for an empty log result set
IsNoRowsEntry(e) ==
  /\ DOMAIN e.fields = {"_norows"} \cup NonMarkerColumns
  /\ \A c \in NonMarkerColumns : e.fields[c] = [t |-> "string", v |-> ""]
  /\ "_norows" \notin NonMarkerColumns =>
       e.fields["_norows"] = [t |-> "bool", v |-> "true"]

Unparsable(i) == eval.arg.set.levels[i] # "NULL" /\ ParseLevel(eval.arg.set.levels[i]).err

\* the rows before the first null level, which ends the logging
LoggedRows ==
  { i \in 1..Len(eval.arg.set.levels) :
      \A j \in 1..i : eval.arg.set.levels[j] # "NULL" }

\* position in the log of the entry of row i: one entry for each row before
\* it, one more for each of these that has no level, and its own
EntryOf(i) == i + Cardinality({ j \in 1..i : Unparsable(j) })

\* a meta-entry at the given level carrying the value lvl
IsMetaEntry(e, level, lvl) ==
  /\ e.level = level
  /\ DOMAIN e.fields = {"event", "invalid.level"}
  /\ e.fields["invalid.level"].v = lvl

\* for each row whose level does not parse the sink gets exactly one
\* meta-entry, at the given level and carrying the value, immediately before
\* the row's own entry, which is at the default level; a row whose level
\* parses gets no meta-entry and is logged at its level
InvalidLevelReportedAt(level) ==
  Logged =>
    /\ Len(eval.out.entries) >=
         Cardinality(LoggedRows) + Cardinality({ j \in LoggedRows : Unparsable(j) })
    /\ Cardinality({ k \in 1..Len(eval.out.entries) :
                       "event" \in DOMAIN eval.out.entries[k].fields })
         = Cardinality({ j \in LoggedRows : Unparsable(j) })
    /\ \A i \in LoggedRows :
         /\ DOMAIN eval.out.entries[EntryOf(i)].fields = NonMarkerColumns
         /\ IF Unparsable(i)
              THEN /\ IsMetaEntry(eval.out.entries[EntryOf(i) - 1], level,
                                  eval.arg.set.levels[i])
                   /\ eval.out.entries[EntryOf(i)].level = eval.arg.defaultLogLevel
              ELSE eval.out.entries[EntryOf(i)].level = eval.arg.set.levels[i]

ByteAt(s, k) == s[k + 1]

\* C28: for a 16-byte input v the identifier has the bytes v3 v2 v1 v0,
\* v5 v4, v7 v6, v8 .. v15, so that 00 01 .. 0f gives
\* 03020100-0504-0706-0809-0a0b0c0d0e0f; an input of any other length gives
\* an error and no identifier.
C28_GuidByteShuffle ==
  (eval.fn = "ParseSQLUUIDBytes" /\ eval.returned) =>
    IF Len(eval.arg) = 16
      THEN /\ eval.out.err = "nil"
           /\ Len(eval.out.uuid) = 16
           /\ \A k \in 0..3 : ByteAt(eval.out.uuid, k) = ByteAt(eval.arg, 3 - k)
           /\ \A k \in 4..5 : ByteAt(eval.out.uuid, k) = ByteAt(eval.arg, 9 - k)
           /\ \A k \in 6..7 : ByteAt(eval.out.uuid, k) = ByteAt(eval.arg, 13 - k)
           /\ \A k \in 8..15 : ByteAt(eval.out.uuid, k) = ByteAt(eval.arg, k)
           /\ eval.arg = [i \in 1..16 |-> i - 1] =>
                eval.out.uuid = <<3, 2, 1, 0, 5, 4, 7, 6, 8, 9, 10, 11, 12, 13, 14, 15>>
      ELSE eval.out.err # "nil" /\ eval.out.uuid = NilUUID

C28_Witness ==
  /\ eval.fn = "ParseSQLUUIDBytes" /\ eval.returned
  /\ eval.arg = [i \in 1..16 |-> i - 1]
  /\ eval.out.uuid = <<3, 2, 1, 0, 5, 4, 7, 6, 8, 9, 10, 11, 12, 13, 14, 15>>

\* ExecContext has returned
ExecReturned == last.op = "ExecContext"

\* the planted fault has produced its error
FaultFired ==
  \/ fault.kind = "query"
  \/ fault.kind = "rows" /\ h.lasterr = "RowsErr"
  \/ fault.kind = "logger" /\ \E k \in 1..Len(logged) : logged[k] = fault.at

\* C29: ExecContext ends after a bounded number of Next calls; it hands the
\* caller no row and the log sink the log-marked sets in stream order;
\* it returns nil unless a Next returned an error other than ErrNoMoreSets,
\* and then that error; and the handle is closed when it returns.
C29_ExecContextDrainsAndCloses ==
  ExecReturned =>
    /\ calls <= Len(stream) + 2
    /\ scanned = <<>>
    /\ \A j, k \in 1..Len(logged) : j < k => logged[j] < logged[k]
    /\ \A k \in 1..Len(logged) : IsLog(logged[k])
    /\ last.err \notin {ErrNoMoreSets, ErrNotDone}
    /\ fault = NoFault =>
         /\ last.err = "nil"
         /\ \A i \in 1..Len(stream) :
              (rs.Logger /\ IsLog(i) /\ \A j \in 1..i : stream[j].cols # <<>>) =>
                \E k \in 1..Len(logged) : logged[k] = i
    /\ FaultFired =>
         last.err = CASE fault.kind = "query" -> "QueryErr"
                      [] fault.kind = "rows" -> "RowsErr"
                      [] fault.kind = "logger" -> "LoggerErr"
    /\ ~rs.Rows
    /\ fault.kind # "query" => h.closed

QueryReturned == last.op = "Query"

\* the result sets whose rows were handed to a target
ScannedSets == { scanned[k][1] : k \in 1..Len(scanned) }

\* C30: Query and Query2 to Query4 call Next once for each target, in order:
\* the rows of a target come from one result set, a later target reads a
\* later result set, and on a fault-free stream whose sets all have columns
\* the j-th slice target holds the rows of the j-th result set that is not
\* log-marked; at the first error they return it, having made no further
\* Next and scanned no further set; and the handle is closed when they return.
C30_QueryScansInOrderAndCloses ==
  QueryReturned =>
    /\ calls <= Len(last.targets)
    /\ last.err = "nil" =>
         /\ calls = Len(last.targets)
         /\ Len(last.value) = Len(last.targets)
    /\ \A j, k \in 1..Len(last.value) :
         \A a \in 1..Len(last.value[j]), b \in 1..Len(last.value[k]) :
           /\ j = k => last.value[j][a][1] = last.value[k][b][1]
           /\ j < k => last.value[j][a][1] < last.value[k][b][1]
    /\ (fault = NoFault /\ AllHaveColumns) =>
         \A j \in 1..Len(last.value) :
           (last.targets[j] = "slice" /\ j <= Len(DataIdx)) =>
             last.value[j] = RowsOf(DataIdx[j])
    /\ \A a, b \in 1..Len(scanned) : a < b => scanned[a][1] <= scanned[b][1]
    /\ Cardinality(ScannedSets) <= calls
    /\ last.err # "nil" => last.value = <<>> \/ calls = Len(last.targets)
    /\ ~rs.Rows
    /\ fault.kind # "query" => h.closed

\* the second of three targets fails on a row error and the handle is closed
C30_Witness ==
  /\ QueryReturned /\ Len(last.targets) = 3 /\ calls = 2
  /\ last.err = "RowsErr" /\ scanned # <<>> /\ h.closed

DoTransactionalReturned == eval.fn = "DoTransactional" /\ eval.returned

\* how often call c was made
Count(trace, c) == Cardinality({ k \in 1..Len(trace) : trace[k] = c })

\* the calls of one run of DoTransactional whose collaborators behave as a
\* says are as the transaction contract wants them
TxContract(a, trace) ==
  IF a.begin # NoErr
    THEN trace = <<"BeginTx">>
    ELSE /\ Count(trace, "txFunc") = 1
         /\ Count(trace, "Commit") + Count(trace, "Rollback") = 1
         /\ trace[1] = "BeginTx" /\ trace[2] = "txFunc" /\ Len(trace) = 3
         /\ Count(trace, "Commit") = 1 <=> a.fn = NoErr
         /\ Count(trace, "Rollback") = 1 <=> a.fn # NoErr

\* C31: if BeginTx fails, txFunc is not run and nothing is committed or
\* rolled back; otherwise txFunc runs once and then exactly one of Commit and
\* Rollback is called, Commit if and only if txFunc returned no error,
\* Rollback if it returned an error or panicked, and the panic goes on after
\* the rollback.
C31_CommitOrRollbackExactlyOnce ==
  DoTransactionalReturned =>
    /\ TxContract(eval.arg, eval.out.trace)
    /\ eval.out.panicked <=> (eval.arg.begin = NoErr /\ eval.arg.fn = <<"panic">>)
    /\ eval.arg.begin # NoErr => eval.out.err # NoErr

\* txFunc failed and the transaction was rolled back
C31_Witness ==
  /\ DoTransactionalReturned /\ eval.arg.fn = <<"TxErr">>
  /\ eval.out.trace = <<"BeginTx", "txFunc", "Rollback">>

\* C32: when txFunc returns the error of Rollback(), DoTransactional rolls
\* back and returns nil.
C32_RollbackRequestReturnsNil ==
  ( /\ DoTransactionalReturned
    /\ eval.arg.begin = NoErr /\ eval.arg.fn = RollbackError ) =>
      /\ eval.out.trace = <<"BeginTx", "txFunc", "Rollback">>
      /\ eval.arg.rollback = NoErr => eval.out.err = NoErr

RetryReturned == eval.fn = "RetryTransactional" /\ eval.returned

\* the number of attempts made
AttemptsMade == Count(eval.out.trace, "BeginTx")

\* attempt k as DoTransactional ends it
AttemptOf(k) == DoTransactional(eval.arg.script[k])

\* C40: RetryTransactional runs DoTransactional attemptLimit times at most,
\* one attempt after the other; every attempt before the last one made
\* returned an error, and fewer than attemptLimit attempts are made only if
\* the last one returned nil (or panicked); it returns what the last attempt
\* returned; with attemptLimit <= 0 nothing is called and nil is returned.
C40_RetryStopsAtFirstSuccess ==
  RetryReturned =>
    /\ AttemptsMade <= IF eval.arg.attemptLimit > 0 THEN eval.arg.attemptLimit ELSE 0
    /\ \A k \in 1..(AttemptsMade - 1) :
         AttemptOf(k).err # NoErr /\ ~AttemptOf(k).panicked
    /\ (AttemptsMade >= 1 /\ AttemptsMade < eval.arg.attemptLimit) =>
         (AttemptOf(AttemptsMade).err = NoErr \/ eval.out.panicked)
    /\ AttemptsMade >= 1 =>
         /\ eval.out.err = AttemptOf(AttemptsMade).err
         /\ eval.out.panicked = AttemptOf(AttemptsMade).panicked
         /\ Count(eval.out.trace, "txFunc")
              = Cardinality({ k \in 1..AttemptsMade : eval.arg.script[k].begin = NoErr })
    /\ eval.arg.attemptLimit <= 0 =>
         eval.out = TxDone(NoErr, FALSE, <<>>)

\* the first attempt failed and the second one, the last allowed, committed
C40_Witness ==
  /\ RetryReturned /\ eval.arg.attemptLimit = 2 /\ AttemptsMade = 2
  /\ eval.out.err = NoErr /\ Count(eval.out.trace, "Commit") = 1
  /\ Count(eval.out.trace, "Rollback") = 1

\* the call that just returned scanned result set fault.at and its iteration
\* ended on the row error planted there
RowsFailedInScan ==
  /\ last.op = "Next" /\ last.scanAt > 0
  /\ fault.kind = "rows" /\ fault.at = last.scanAt
  /\ h.lasterr = "RowsErr"

\* C33: the Next whose iteration over a caller-visible set ends on a row
\* error returns nil, closes the handle and stores the error in rs.Err; from
\* then on rs.Err stays and every Next returns it.
C33_StreamErrorSurfacesAtNextCall ==
  /\ [](RowsFailedInScan =>
          /\ last.nextErr = "nil"
          /\ h.closed /\ ~rs.Rows
          /\ rs.Err = "RowsErr")
  /\ [][rs.Err = "RowsErr" =>
          /\ rs'.Err = "RowsErr"
          /\ calls' = calls + 1 => (last'.op = "Next" /\ last'.nextErr = "RowsErr")]_vars

\* the second Next after the one that met the row error returns it again
C33_Witness ==
  /\ last.op = "Next" /\ last.nextErr = "RowsErr" /\ rs.Err = "RowsErr"
  /\ calls = 3 /\ fault.kind = "rows" /\ fault.at = 1 /\ scanned # <<>>

TwinReturned == last.op = "NextCalls"

\* C34: a cursor whose log sink drains every log-marked set and returns no
\* error, and a cursor with no log sink, return the same values and errors
\* from the same successive Next calls on the same stream, and end in the
\* same state (the Logger field aside); only the former has logged anything.
C34_LoggerDoesNotChangeTheCursor ==
  TwinReturned =>
    /\ eval.out.results = last.value
    /\ eval.out.rs = WithoutLogger(World).rs
    /\ eval.out.h = h
    /\ eval.out.scanned = scanned
    /\ eval.out.logged = <<>>

\* a log-marked set between two data sets was drained on the way to the
\* second data set, which both cursors returned
C34_Witness ==
  /\ TwinReturned /\ logged = <<2>> /\ Len(stream) = 3 /\ calls = 2
  /\ last.value[2].nextErr = "nil" /\ last.value[2].value # <<>>
  /\ eval.out.results = last.value

\* C35: when rows.Err() is non-nil after the dispatcher has read the rows of
\* a dispatch-marked set, the dispatcher returns that error, however many
\* rows were scanned before it arose.
C35_DispatcherReturnsStreamError ==
  (Dispatched /\ eval.arg.drv = "rows") => eval.out.err = "RowsErr"

\* C36: when ExecContext returns a nil error, the sql.Result it returns is
\* not nil.
C36_ExecResultIsNotNil ==
  (ExecReturned /\ last.err = "nil") => last.res # "nil"

\* result set j is the first set after set i that is not log-marked, and it
\* has columns
NextVisibleAfter(i, j) ==
  /\ j \in (i + 1)..Len(stream)
  /\ ~IsLog(j) /\ stream[j].cols # <<>>
  /\ \A k \in (i + 1)..(j - 1) : IsLog(k)

\* the call that just returned scanned set i with a single accumulator, found
\* it to end with no row and no row error, and got past the sets that
\* follow, outside the fully-consumed mode
EmptySingleAt(i) ==
  /\ last.op = "Next" /\ last.kind = "single" /\ last.scanAt = i
  /\ stream[i].rows = 0 /\ ~FaultAt("rows", i)
  /\ last.nextErr = "nil" /\ ~last.doneAfterNext

\* C37: NextResult with a single accumulator on a caller-visible set with no
\* rows, followed by a further caller-visible set, returns the zero-rows
\* error and leaves the cursor open on that further set, which the following
\* Next scans: on a fault-free stream a slice accumulator gets its rows.
C37_ZeroRowsLeavesTheCursorOpen ==
  /\ [](\A i, j \in 1..Len(stream) :
          (EmptySingleAt(i) /\ NextVisibleAfter(i, j)) =>
            /\ last.err = ErrZeroRowsExpectedOne
            /\ rs.Rows /\ ~h.closed /\ rs.Err = "nil"
            /\ h.set = j /\ h.row = 0)
  /\ [][\A i, j \in 1..Len(stream) :
          (EmptySingleAt(i) /\ NextVisibleAfter(i, j) /\ calls' = calls + 1) =>
            /\ last'.scanAt = j
            /\ (fault = NoFault /\ last'.kind = "slice") =>
                 (last'.err = "nil" /\ last'.value = RowsOf(j))]_vars

\* after the zero-rows error on the first set the second set was read
C37_Witness ==
  /\ last.op = "Next" /\ last.kind = "slice" /\ last.scanAt = 2 /\ calls = 2
  /\ stream[1].rows = 0 /\ ~IsLog(1) /\ stream[1].cols # <<>> /\ stream[2].rows = 2
  /\ last.value = RowsOf(2) /\ plain = FALSE /\ fault = NoFault /\ ~rs.DoneAfterNext

ScanningRows == eval.fn = "scanRow"

\* C38: the type is inspected and the fields are mapped when the first row
\* is scanned and never again: both have happened at most once, the
\* inspection exactly when a row was scanned, and an invalid type has then
\* ended the scan with an error; a result set with no row ends with no error
\* and nothing stored, whatever the type and the columns.
C38_TypeIsCheckedAtFirstRowOnly ==
  ScanningRows =>
    /\ eval.out.inspected = (IF eval.out.calls >= 1 THEN 1 ELSE 0)
    /\ eval.out.mapped <= eval.out.inspected
    /\ eval.out.mapped = 1 => inspectType(eval.arg.target.T).isStruct
    /\ (eval.out.calls >= 1 /\ ~inspectType(eval.arg.target.T).valid) =>
         (eval.returned /\ eval.out.err # "nil" /\ eval.out.scanned = 0)
    /\ (eval.returned /\ eval.arg.rows = 0) =>
         (eval.out.err = "nil" /\ eval.out.scanned = 0 /\ eval.out.calls = 0)

\* a set without rows was read into a scanner of an invalid type
C38_Witness ==
  /\ ScanningRows /\ eval.returned /\ eval.arg.rows = 0 /\ eval.out.err = "nil"
  /\ ~inspectType(eval.arg.target.T).valid

\* the caller-visible result sets: those that are not log-marked, up to the
\* first set without columns, which stands for the end of the result sets
VisibleIdx ==
  SelectSeq([i \in 1..Len(stream) |-> i],
            LAMBDA i : ~IsLog(i) /\ \A j \in 1..i : stream[j].cols # <<>>)

\* a Query function was given slice targets only and the stream is fault-free
SliceQueryReturned ==
  /\ QueryReturned /\ fault = NoFault
  /\ \A j \in 1..Len(last.targets) : last.targets[j] = "slice"

\* C39: on a fault-free stream, a Query function with k slice targets and
\* more than k caller-visible result sets returns nil and the rows of the
\* first k of them, closes the handle and has read no row of the others;
\* with fewer than k caller-visible result sets it returns ErrNoMoreSets.
C39_QueryDoesNotEnforceExhaustion ==
  SliceQueryReturned =>
    /\ Len(last.targets) < Len(VisibleIdx) =>
         /\ last.err = "nil"
         /\ last.value = [j \in 1..Len(last.targets) |-> RowsOf(VisibleIdx[j])]
         /\ h.closed /\ ~rs.Rows
         /\ \A j \in (Len(last.targets) + 1)..Len(VisibleIdx) :
              VisibleIdx[j] \notin ScannedSets
    /\ Len(last.targets) > Len(VisibleIdx) => last.err = ErrNoMoreSets

====
